---- MODULE Spec2Model ----
(***************************************************************************)
(* A model of the tracer agent (src/agents/tracer/agent.ts): the handler   *)
(* provisioning protocol (getHandlers), the session start-up with its      *)
(* shared id counter, the probe dispatch with the per-thread depth table,  *)
(* and the event batcher.                                                  *)
(*                                                                         *)
(* The script runs on one JavaScript thread: every callback (a probe, a    *)
(* timer, an rpc call, the continuation of an await) runs to completion,   *)
(* so each of them is one atomic action here.                              *)
(***************************************************************************)
EXTENDS Integers, Sequences, FiniteSets, TLC

\* ------------------------------------------------------------------ bounds

\* the page size of one handlers:get message
PageSize == 1000
\* the most scopes of a request whose paging is explored
MaxScopes == 2
\* the most targets of a session, all flavors together
MaxTargets == 2
\* the most update calls of a session
MaxUpdates == 1
\* the most probe invocations of a run
MaxProbes == 3
\* the latest value of the clock
MaxTime == 1
\* the most rules of a specification
MaxRules == 3

\* the managed invocations explored
MaxCalls == 2

\* ------------------------------------------------------------------ helpers

Min(a, b) == IF a < b THEN a ELSE b

Flavors == {"c", "objc", "swift", "java"}

NoScripts == <<>>

RECURSIVE FlattenMembers(_)
\* the members of a scope list, scopes in order, members in order
FlattenMembers(scopes) ==
    IF scopes = <<>> THEN <<>>
    ELSE Head(scopes).members \o FlattenMembers(Tail(scopes))

\* the number of members of a scope list
RECURSIVE CountMembers(_)
CountMembers(scopes) ==
    IF scopes = <<>> THEN 0
    ELSE Len(Head(scopes).members) + CountMembers(Tail(scopes))

\* ------------------------------------------------------------------ state

VARIABLES
    handlers,       \* Agent.handlers: target id -> handler pair
    stackDepth,     \* Agent.stackDepth: thread id -> depth
    nextId,         \* Agent.nextId
    pendingEvents,  \* Agent.pendingEvents
    flushTimer,     \* Agent.flushTimer: TRUE when a timeout is armed
    sent,           \* every message passed to send(), in order
    recvOps,        \* the recv() callbacks registered and not yet completed
    answered,       \* the positions of sent the host has replied to
    gh,             \* the activations of getHandlers, one per flavor
    start,          \* the activation of Agent.start
    batch,          \* the activations of traceNativeEntries / traceJavaTargets
    plan,           \* the plan start() resolved from the specification
    java,           \* the managed runtime: its state, the callbacks it holds back,
                    \* and how it ran the callback of start (no, atOnce, later)
    attached,       \* the target ids whose probe or replacement is installed
    registered,     \* every handlers.set so far: <<id, flavor, member name>>
    rpc,            \* the update calls made so far and the outcome of the last
    now,            \* Date.now() - Agent.started, in milliseconds
    probes,         \* every probe invocation so far, in order
    window,         \* the events emitted since the last call of flush
    windows,        \* the non-empty windows closed by the calls of flush
    lastOp,         \* the operation that ran last (redispose: a flush right after a flush)
    trail,          \* the rules the loop of start() went through so far, each with
                    \* the plan and the queue of managed rules it left
    managed         \* the invocations of replaced managed methods: those in flight
                    \* by thread, those finished, the callbacks handed to
                    \* Script.nextTick and the errors those threw

agentVars == <<handlers, stackDepth, nextId, pendingEvents, flushTimer>>
probeVars == <<stackDepth, pendingEvents, flushTimer>>
sessionVars == <<start, batch, plan, trail, java, attached, registered>>
dispatchVars == <<now, probes, window, windows, lastOp, managed>>
vars == <<handlers, stackDepth, nextId, pendingEvents, flushTimer,
          sent, recvOps, answered, gh, start, batch, plan, java, attached,
          registered, rpc, now, probes, window, windows, lastOp, trail, managed>>

\* the part of the state the start-up code writes, as one value, so that the
\* calls one callback makes in sequence compose
Cur ==
    [handlers |-> handlers, nextId |-> nextId, sent |-> sent, recvOps |-> recvOps,
     gh |-> gh, start |-> start, batch |-> batch, java |-> java,
     attached |-> attached, registered |-> registered]

Commit(s) ==
    /\ handlers' = s.handlers
    /\ nextId' = s.nextId
    /\ sent' = s.sent
    /\ recvOps' = s.recvOps
    /\ gh' = s.gh
    /\ start' = s.start
    /\ batch' = s.batch
    /\ java' = s.java
    /\ attached' = s.attached
    /\ registered' = s.registered

\* send(message)
Send(s, message) == [s EXCEPT !.sent = Append(@, message)]

\* Map.set
Put(m, k, v) == [x \in (DOMAIN m) \cup {k} |-> IF x = k THEN v ELSE m[x]]

\* ------------------------------------------------------------------ getHandlers

GhIdle ==
    [pc |-> "idle", request |-> [flavor |-> "c", baseId |-> 0, scopes |-> <<>>],
     id |-> 0, pendingScopes |-> <<>>, scripts |-> NoScripts]

\* lines 896-906: the locals of a fresh call
GhCall(request) ==
    [pc |-> "build", request |-> request, id |-> request.baseId,
     pendingScopes |-> request.scopes, scripts |-> NoScripts]

\* lines 925-933: how many members of a scope with n pending members one pass
\* takes when it already holds size members: it pushes one member at a time
\* and stops right after the push that makes size reach PageSize
TakeCount(n, size) == Min(n, PageSize - size)

\* lines 928-932, 937: the pass is full after taking from this scope
Exhausted(take, size) == take > 0 /\ size + take = PageSize

\* line 935: pendingMembers.splice(0, curMembers.length)
SpliceTaken(members, take) == SubSeq(members, take + 1, Len(members))

RECURSIVE FillRound(_, _, _, _)
\* lines 916-940: one pass over pendingScopes from scope i on
FillRound(pending, i, size, cur) ==
    IF i > Len(pending)
    THEN [curScopes |-> cur, pendingScopes |-> pending, size |-> size]
    ELSE LET ms == pending[i].members
             take == TakeCount(Len(ms), size)
             cur2 == Append(cur, [name |-> pending[i].name,
                                  members |-> SubSeq(ms, 1, take)])
             pend2 == [pending EXCEPT ![i].members = SpliceTaken(ms, take)]
         IN IF Exhausted(take, size)
            THEN [curScopes |-> cur2, pendingScopes |-> pend2, size |-> size + take]
            ELSE FillRound(pend2, i + 1, size + take, cur2)

RECURSIVE DropEmptyLeading(_)
\* lines 942-947: drop the leading scopes that have no pending member
DropEmptyLeading(pending) ==
    IF pending # <<>> /\ Len(Head(pending).members) = 0
    THEN DropEmptyLeading(Tail(pending))
    ELSE pending

\* a pass that counts itself instead of its members
AdvanceIdByOne(id, size) == id + 1

\* line 954: id += size
AdvanceId(id, size) == id + size

\* a reply put in front of the scripts gathered so far
PrependScripts(acc, scripts) == scripts \o acc

\* line 952: scripts.push(...response.scripts)
AppendScripts(acc, scripts) == acc \o scripts

\* lines 908-950: one pass of the do-while up to its await: build the request,
\* send it and register the callback for reply:<id>
GhRound(s, f) ==
    LET a == s.gh[f]
        r == FillRound(a.pendingScopes, 1, 0, <<>>)
        curRequest == [type |-> "handlers:get", flavor |-> a.request.flavor,
                       baseId |-> a.id, scopes |-> r.curScopes]
        s1 == Send(s, curRequest)
    IN [s1 EXCEPT !.recvOps = Append(@, [key |-> a.id, flavor |-> f, size |-> r.size]),
                  !.gh[f].pc = "await",
                  !.gh[f].pendingScopes = DropEmptyLeading(r.pendingScopes)]

\* lines 895-950: the call, which runs up to the first await
GetHandlers(s, f, request) == GhRound([s EXCEPT !.gh[f] = GhCall(request)], f)

\* lines 950-960: the reply arrives: append its scripts, advance id, then run
\* the next pass or return
GhResume(s, f, op, scripts) ==
    LET s1 == [s EXCEPT !.gh[f].scripts = AppendScripts(@, scripts),
                        !.gh[f].id = AdvanceId(@, op.size)]
    IN IF s1.gh[f].pendingScopes # <<>>
       THEN GhRound(s1, f)
       ELSE [s1 EXCEPT !.gh[f].pc = "done"]

\* lines 962-968: the position in ops of the first callback registered for
\* reply:<key>, 0 when there is none (the callbacks of one message type
\* complete in the order they were registered)
FirstOp(ops, key) ==
    IF \E i \in 1..Len(ops) : ops[i].key = key
    THEN CHOOSE i \in 1..Len(ops) :
            /\ ops[i].key = key
            /\ \A j \in 1..(i - 1) : ops[j].key # key
    ELSE 0

RemoveAt(q, i) == SubSeq(q, 1, i - 1) \o SubSeq(q, i + 1, Len(q))

\* the script the host produces for a member presented under an id
HostScript(id, member, body) == [id |-> id, member |-> member, body |-> body]

\* the scripts of a reply: one per member of the request, in request order
ReplyScripts(req, bodies) ==
    LET ms == FlattenMembers(req.scopes)
    IN [k \in 1..Len(ms) |-> HostScript(req.baseId + k - 1, ms[k], bodies[k])]

\* ------------------------------------------------------------------ handlers

\* what a script defines: both halves (each logging once, or twice), one of
\* them, or nothing that evaluates
ScriptBodies == {"both", "twice", "enterOnly", "leaveOnly", "bad"}

\* scripts[offset] past the end of the reply
Undefined == [id |-> 0, member |-> <<"undefined">>, body |-> "undefined"]

ScriptAt(scripts, k) == IF k \in 1..Len(scripts) THEN scripts[k] ELSE Undefined

Noop == [fn |-> "noop", script |-> Undefined]

\* lines 539-541: eval and the two reads succeed
Parses(script) == script.body \in {"both", "twice", "enterOnly", "leaveOnly"}

\* line 541: [h.onEnter ?? noop, h.onLeave ?? noop]; line 547: [noop, noop]
HandlerOf(script) ==
    IF Parses(script)
    THEN <<IF script.body \in {"both", "twice", "enterOnly"}
           THEN [fn |-> "onEnter", script |-> script] ELSE Noop,
           IF script.body \in {"both", "twice", "leaveOnly"}
           THEN [fn |-> "onLeave", script |-> script] ELSE Noop>>
    ELSE <<Noop, Noop>>

\* lines 538-549: parseHandler, with the warning it sends
ParseHandler(s, name, script) ==
    IF Parses(script) THEN s
    ELSE Send(s, [type |-> "agent:warning", message |-> <<"Invalid handler", name>>])

\* ------------------------------------------------------------------ start-up

NativeFlavors == <<"c", "objc", "swift">>

BatchNone == [pc |-> "none", baseId |-> 0, groups |-> <<>>]

\* lines 319-325, 364-377: the request scopes of a batch
RequestScopes(groups) ==
    [g \in 1..Len(groups) |->
        [name |-> groups[g].name,
         members |-> [j \in 1..Len(groups[g].members) |-> groups[g].members[j].name]]]

\* a batch that takes its ids without moving the counter
ReserveNone(next, n) == next

\* lines 324, 375: this.nextId += items.length, over the groups of the batch
ReserveIds(next, n) == next + n

\* lines 355-379: traceJavaTargets up to its await
TraceJavaBegin(s) ==
    LET groups == plan.java
        baseId == s.nextId
        s1 == [s EXCEPT !.nextId = ReserveIds(@, CountMembers(groups)),
                        !.batch["java"] = [pc |-> "awaiting", baseId |-> baseId,
                                           groups |-> groups]]
    IN GetHandlers(s1, "java", [flavor |-> "java", baseId |-> baseId,
                                scopes |-> RequestScopes(groups)])

\* lines 303-327: traceNativeEntries up to its await
TraceNativeBegin(s, f) ==
    LET groups == plan.native[f]
        baseId == s.nextId
    IN IF Len(groups) = 0
       THEN [s EXCEPT !.batch[f] = [pc |-> "done", baseId |-> baseId, groups |-> groups]]
       ELSE LET s1 == [s EXCEPT !.nextId = ReserveIds(@, CountMembers(groups)),
                                !.batch[f] = [pc |-> "awaiting", baseId |-> baseId,
                                              groups |-> groups]]
            IN GetHandlers(s1, f, [flavor |-> f, baseId |-> baseId,
                                   scopes |-> RequestScopes(groups)])

\* lines 335-336, 396-400: parse the script of one target and register the pair
Register(s, f, id, item, script) ==
    LET s1 == ParseHandler(s, item.name, script)
    IN [s1 EXCEPT !.handlers = Put(@, id, HandlerOf(script)),
                  !.registered = @ \cup {<<id, f, item.name>>}]

\* a failure that ends the loop over the batch
AbortBatch(offset, n) == n

\* lines 343-350: the catch sends its warning and the loop goes on: offset++
CatchAndContinue(offset, n) == offset + 1

RECURSIVE AttachNative(_, _, _, _, _)
\* lines 329-352: the loop over the items of a native batch, from offset on;
\* fails holds the addresses Interceptor.attach throws on
AttachNative(s, f, items, offset, fails) ==
    IF offset >= Len(items) THEN s
    ELSE LET item == items[offset + 1]
             id == s.batch[f].baseId + offset
             s1 == Register(s, f, id, item, ScriptAt(s.gh[f].scripts, offset + 1))
             s2 == IF item.address \in fails
                   THEN Send(s1, [type |-> "agent:warning",
                                  message |-> <<"Skipping", item.name>>])
                   ELSE [s1 EXCEPT !.attached = @ \cup {id}]
             next == IF item.address \in fails
                     THEN CatchAndContinue(offset, Len(items)) ELSE offset + 1
         IN AttachNative(s2, f, items, next, fails)

RECURSIVE AttachJava(_, _, _)
\* lines 383-416: the loop over the methods of the managed batch
AttachJava(s, items, offset) ==
    IF offset >= Len(items) THEN s
    ELSE LET item == items[offset + 1]
             id == s.batch["java"].baseId + offset
             s1 == Register(s, "java", id, item, ScriptAt(s.gh["java"].scripts, offset + 1))
         IN AttachJava([s1 EXCEPT !.attached = @ \cup {id}], items, offset + 1)

\* lines 327-353, 379-420: getHandlers returned to the batch of flavor f
BatchResume(s, f, fails) ==
    LET items == FlattenMembers(s.batch[f].groups)
        s1 == IF f = "java" THEN AttachJava(s, items, 0)
              ELSE AttachNative(s, f, items, 0, fails)
    IN [s1 EXCEPT !.batch[f].pc = "done"]

\* lines 230-244: the callback start() hands to Java.perform
JavaStartCallback(s) == TraceJavaBegin([s EXCEPT !.start.javaStartDeferred = FALSE])

\* Java.perform: at once when the runtime is ready, queued until then
JavaPerform(s) ==
    IF s.java.state = "ready"
    THEN JavaStartCallback([s EXCEPT !.java.performed = "atOnce"])
    ELSE [s EXCEPT !.java.pending = Append(@, "start")]

\* a request of managed rules that is never resolved
JavaNeverResolved(s) == ~plan.javaRules

\* line 247, 242: javaStartRequest is resolved
JavaResolved(s) == ~plan.javaRules \/ s.batch["java"].pc = "done"

NativeDone(s) == \A i \in 1..Len(NativeFlavors) : s.batch[NativeFlavors[i]].pc = "done"

\* a start that never waits for the managed batch
AwaitsJavaNever(javaStartDeferred) == FALSE

\* line 252: if (!javaStartDeferred) await javaStartRequest
AwaitsJava(javaStartDeferred) == ~javaStartDeferred

RECURSIVE Continue(_)
\* lines 250-265: start() resumes as far as its awaits allow
Continue(s) ==
    IF s.start.pc = "awaitNative" /\ NativeDone(s)
    THEN Continue([s EXCEPT !.start.pc =
                      IF AwaitsJava(s.start.javaStartDeferred)
                      THEN "awaitJava" ELSE "initialize"])
    ELSE IF s.start.pc = "awaitJava" /\ JavaResolved(s)
    THEN Continue([s EXCEPT !.start.pc = "initialize"])
    ELSE IF s.start.pc = "initialize"
    THEN Continue([Send(s, [type |-> "agent:initialized"]) EXCEPT !.start.pc = "initialized"])
    ELSE IF s.start.pc = "initialized" /\ JavaResolved(s)
    THEN [Send(s, [type |-> "agent:started", count |-> Cardinality(DOMAIN s.handlers)])
            EXCEPT !.start.pc = "started"]
    ELSE s

\* lines 296-300: the three native batches, each up to its await
TraceNativeTargets(s) ==
    TraceNativeBegin(TraceNativeBegin(TraceNativeBegin(s, "c"), "objc"), "swift")

\* a start that takes the managed runtime for granted
JavaAssumedAvailable(state) == FALSE

\* line 225: !Java.available
JavaUnavailable(state) == state = "unavailable"

\* lines 134-139, 157-266: init calls start(), which runs up to its first await
Start ==
    /\ start.pc = "init"
    /\ IF plan.javaRules /\ JavaUnavailable(java.state)
       THEN Commit([Send(Cur, [type |-> "agent:error",
                               message |-> "Java runtime is not available"])
                       EXCEPT !.start.pc = "failed"])
       ELSE LET s1 == IF plan.javaRules THEN JavaPerform(Cur) ELSE Cur
                s2 == TraceNativeTargets(s1)
            IN Commit(Continue([s2 EXCEPT !.start.pc = "awaitNative"]))
    /\ UNCHANGED <<probeVars, dispatchVars, answered, plan, trail, rpc>>

\* the managed runtime becomes ready and runs the operations it queued
JavaLoaded ==
    /\ java.state = "loading"
    /\ LET s1 == [Cur EXCEPT !.java.state = "ready", !.java.pending = <<>>]
           s2 == IF java.pending # <<>>
                 THEN JavaStartCallback([s1 EXCEPT !.java.performed = "later"])
                 ELSE s1
       IN Commit(Continue(s2))
    /\ UNCHANGED <<probeVars, dispatchVars, answered, plan, trail, rpc>>

\* the host answers the i-th message, a handlers:get request; the reply
\* completes the first callback waiting for reply:<baseId>, and everything
\* that was waiting on it runs
HostReply(i, bodies, fails) ==
    /\ i \in 1..Len(sent)
    /\ i \notin answered
    /\ sent[i].type = "handlers:get"
    /\ FirstOp(recvOps, sent[i].baseId) # 0
    /\ LET o == FirstOp(recvOps, sent[i].baseId)
           op == recvOps[o]
           f == op.flavor
           s1 == GhResume([Cur EXCEPT !.recvOps = RemoveAt(@, o)], f, op,
                          ReplyScripts(sent[i], bodies))
           s2 == IF s1.gh[f].pc = "done" /\ s1.batch[f].pc = "awaiting"
                 THEN BatchResume(s1, f, fails) ELSE s1
       IN Commit(Continue(s2))
    /\ answered' = answered \cup {i}
    /\ UNCHANGED <<probeVars, dispatchVars, plan, trail, rpc>>

\* a check against the id counter instead of the handler table
UpdateAssigned(id) == id >= 1 /\ id < nextId

\* lines 147-150: the target id is in the handler table
UpdateKnown(id) == id \in DOMAIN handlers

\* the script text an update call carries
UpdateScript(id, body) == [id |-> id, member |-> <<"update", rpc.updates + 1>>, body |-> body]

\* an update that stops after the first half
SwapEnterOnly(handler, newHandler) == <<newHandler[1], handler[2]>>

\* lines 153-154: handler[0] = newHandler[0]; handler[1] = newHandler[1], on
\* the array the probe callbacks hold
SwapPair(handler, newHandler) == <<newHandler[1], newHandler[2]>>

\* the record of the rpc calls of update: how many there were, the id and the
\* outcome of the last, and for each call that went through its id, its
\* script and how many probe invocations had run by then
UpdateCall(id, script, result) ==
    [updates |-> rpc.updates + 1, id |-> id, result |-> result,
     calls |-> IF result = "ok"
               THEN Append(rpc.calls, [id |-> id, script |-> script, result |-> result,
                                       after |-> Len(probes)])
               ELSE rpc.calls]

\* lines 146-155: update(id, name, script)
Update(id, body) ==
    /\ rpc.updates < MaxUpdates
    /\ IF ~UpdateKnown(id)
       THEN /\ rpc' = UpdateCall(id, UpdateScript(id, body), "Invalid target ID")
            /\ UNCHANGED <<handlers, nextId, sent, recvOps, gh, start, batch,
                           java, attached, registered>>
       ELSE LET script == UpdateScript(id, body)
                s1 == ParseHandler(Cur, <<"update", id>>, script)
            IN IF id \in DOMAIN handlers
               THEN /\ Commit([s1 EXCEPT !.handlers[id] = SwapPair(@, HandlerOf(script))])
                    /\ rpc' = UpdateCall(id, script, "ok")
               ELSE \* handler[0] = ... on undefined
                    /\ Commit(s1)
                    /\ rpc' = UpdateCall(id, script, "TypeError")
    /\ UNCHANGED <<probeVars, dispatchVars, answered, plan, trail>>

\* ------------------------------------------------------------------ dispatch

Threads == {"t1", "t2"}

\* Map.delete
Remove(m, k) == [x \in (DOMAIN m) \ {k} |-> m[x]]

\* an entry that reports the depth after the increment
UpdateDepthAfter(table, threadId, cutPoint) ==
    LET depth == IF threadId \in DOMAIN table THEN table[threadId] ELSE 0
    IN IF cutPoint = ">"
       THEN [depth |-> depth + 1, table |-> Put(table, threadId, depth + 1)]
       ELSE IF depth - 1 # 0
            THEN [depth |-> depth - 1, table |-> Put(table, threadId, depth - 1)]
            ELSE [depth |-> depth - 1, table |-> Remove(table, threadId)]

\* lines 520-536: updateDepth; the depth it returns and the table it leaves
UpdateDepth(table, threadId, cutPoint) ==
    LET depth == IF threadId \in DOMAIN table THEN table[threadId] ELSE 0
    IN IF cutPoint = ">"
       THEN [depth |-> depth, table |-> Put(table, threadId, depth + 1)]
       ELSE IF depth - 1 # 0
            THEN [depth |-> depth - 1, table |-> Put(table, threadId, depth - 1)]
            ELSE [depth |-> depth - 1, table |-> Remove(table, threadId)]

\* the batcher's fields as one value
Batcher == [pendingEvents |-> pendingEvents, flushTimer |-> flushTimer, sent |-> sent]

\* an emit that puts the event in front of the queue
EmitInFront(b, event) ==
    [b EXCEPT !.pendingEvents = <<event>> \o @, !.flushTimer = TRUE]

\* an emit that arms no timer
EmitWithoutTimer(b, event) == [b EXCEPT !.pendingEvents = Append(@, event)]

\* lines 832-838: emit
Emit(b, event) ==
    [b EXCEPT !.pendingEvents = Append(@, event), !.flushTimer = TRUE]

\* a flush that sends the queue and keeps it
FlushKeepsQueue(b) ==
    IF Len(b.pendingEvents) = 0 THEN [b EXCEPT !.flushTimer = FALSE]
    ELSE [b EXCEPT !.flushTimer = FALSE,
                   !.sent = Append(@, [type |-> "events:add",
                                       events |-> b.pendingEvents])]

\* lines 840-857: flush
Flush(b) ==
    IF Len(b.pendingEvents) = 0 THEN [b EXCEPT !.flushTimer = FALSE]
    ELSE [pendingEvents |-> <<>>, flushTimer |-> FALSE,
          sent |-> Append(b.sent, [type |-> "events:add",
                                   events |-> b.pendingEvents])]

\* a dispose that only cancels the timer
DisposeCancels(b) == [b EXCEPT !.flushTimer = FALSE]

\* lines 142-144: dispose
DisposeOp(b) == Flush(b)

\* how many times a handler half calls log
Logs(h) == IF h.fn = "noop" THEN 0 ELSE IF h.script.body = "twice" THEN 2 ELSE 1

\* lines 484-486: the events one invocation logs
EventsOf(id, h, timestamp, threadId, depth) ==
    [k \in 1..Logs(h) |->
        [id |-> id, timestamp |-> timestamp, threadId |-> threadId,
         depth |-> depth, message |-> <<h.fn, h.script.member, k>>]]

RECURSIVE EmitAll(_, _)
EmitAll(b, events) ==
    IF events = <<>> THEN b ELSE EmitAll(Emit(b, Head(events)), Tail(events))

SetBatcher(b) ==
    /\ pendingEvents' = b.pendingEvents
    /\ flushTimer' = b.flushTimer
    /\ sent' = b.sent

\* lines 430-435, 473-489: a probe of target id fires on thread threadId
InvokeNativeHandler(id, threadId, cutPoint) ==
    /\ Len(probes) < MaxProbes
    /\ id \in attached
    /\ LET h == handlers[id][IF cutPoint = ">" THEN 1 ELSE 2]
           timestamp == now
           r == UpdateDepth(stackDepth, threadId, cutPoint)
           events == EventsOf(id, h, timestamp, threadId, r.depth)
       IN /\ stackDepth' = r.table
          /\ SetBatcher(EmitAll(Batcher, events))
          /\ window' = window \o events
          /\ probes' = Append(probes, [threadId |-> threadId, id |-> id,
                                       cutPoint |-> cutPoint, callback |-> h,
                                       depth |-> r.depth,
                                       timestamp |-> timestamp, events |-> events])
    /\ lastOp' = cutPoint
    /\ UNCHANGED <<handlers, nextId, recvOps, answered, gh, sessionVars, rpc,
                   now, windows, managed>>

ProbeEnter == \E id \in DOMAIN handlers, t \in Threads : InvokeNativeHandler(id, t, ">")

ProbeLeave == \E id \in DOMAIN handlers, t \in Threads : InvokeNativeHandler(id, t, "<")

\* time passes
Tick ==
    /\ now < MaxTime
    /\ now' = now + 1
    /\ UNCHANGED <<agentVars, sent, recvOps, answered, gh, sessionVars, rpc,
                   probes, window, windows, lastOp, managed>>

\* a call of flush closes the window of events emitted since the last call
CloseWindow(by) ==
    /\ windows' = IF window # <<>>
                  THEN Append(windows, [events |-> window, by |-> by])
                  ELSE windows
    /\ window' = <<>>

FlushOps == {"timer", "dispose", "redispose"}

\* line 836: the timeout armed by emit expires and calls flush
TimerExpires ==
    /\ flushTimer
    /\ SetBatcher(Flush(Batcher))
    /\ CloseWindow("timer")
    /\ lastOp' = "timer"
    /\ UNCHANGED <<handlers, stackDepth, nextId, recvOps, answered, gh,
                   sessionVars, rpc, now, probes, managed>>

\* lines 142-144: the host calls dispose
Dispose ==
    /\ SetBatcher(DisposeOp(Batcher))
    /\ CloseWindow("dispose")
    /\ lastOp' = IF lastOp \in FlushOps THEN "redispose" ELSE "dispose"
    /\ UNCHANGED <<handlers, stackDepth, nextId, recvOps, answered, gh,
                   sessionVars, rpc, now, probes, managed>>

\* ------------------------------------------------------------------ managed invocations

\* no replaced method was called yet
NoCalls == [started |-> 0, stacks |-> [t \in Threads |-> <<>>], done |-> <<>>,
            ticks |-> <<>>, uncaught |-> <<>>]

\* the arguments of a call
Args == {"x", "y"}

\* what the function of a handler half can do when it is called: return
\* nothing, return a value, throw an error of the script, throw an exception
\* of the managed runtime
Outcomes(h, cutPoint) ==
    IF h.fn = "noop" THEN {"returns"}
    ELSE IF cutPoint = ">" THEN {"returns", "throwsError", "throwsJava"}
    ELSE {"returns", "replaces", "throwsError", "throwsJava"}

\* a catch that throws every error again
RethrowAll(outcome) ==
    IF outcome \in {"throwsError", "throwsJava"} THEN "throw" ELSE "return"

\* lines 507-517: the try around the call of the handler: an exception of
\* the managed runtime is thrown again, another error goes to Script.nextTick
CatchPolicy(outcome) ==
    IF outcome = "throwsJava" THEN "throw"
    ELSE IF outcome = "throwsError" THEN "defer"
    ELSE "return"

\* the entry of a thread in the depth table: the depth it holds, or nothing
DepthEntry(table, threadId) ==
    IF threadId \in DOMAIN table THEN <<table[threadId]>> ELSE <<>>

\* lines 491-518: invokeJavaHandler for the n-th invocation; the depth table
\* and the batcher it leaves, the events it logged, the callbacks handed to
\* Script.nextTick, and how it completes
InvokeJavaHandler(n, id, threadId, cutPoint, outcome) ==
    LET h == handlers[id][IF cutPoint = ">" THEN 1 ELSE 2]
        r == UpdateDepth(stackDepth, threadId, cutPoint)
        events == EventsOf(id, h, now, threadId, r.depth)
        policy == CatchPolicy(outcome)
    IN [stackDepth |-> r.table,
        batcher |-> EmitAll(Batcher, events),
        events |-> events,
        ticks |-> IF policy = "defer" THEN Append(managed.ticks, <<n, cutPoint>>)
                  ELSE managed.ticks,
        completion |-> IF policy = "throw"
                       THEN [kind |-> "throw", value |-> <<n, cutPoint>>]
                       ELSE [kind |-> "return",
                             value |-> IF outcome = "replaces" THEN <<"replacement", n>>
                                       ELSE <<"undefined">>]]

\* the target is a managed method whose implementation was replaced
Replaced(id) ==
    /\ id \in attached
    /\ \E r \in registered : r[1] = id /\ r[2] = "java"

\* lines 446-460: the replaced method of target id is called on a thread:
\* handleJavaInvocation runs onEnter and, unless that throws, calls the real
\* method
JavaCall(id, threadId, args, outcome) ==
    /\ managed.started < MaxCalls
    /\ Replaced(id)
    /\ outcome \in Outcomes(handlers[id][1], ">")
    /\ LET n == managed.started + 1
           r == InvokeJavaHandler(n, id, threadId, ">", outcome)
           call == [n |-> n, id |-> id, threadId |-> threadId, args |-> args,
                    before |-> DepthEntry(stackDepth, threadId), enter |-> outcome]
       IN /\ stackDepth' = r.stackDepth
          /\ SetBatcher(r.batcher)
          /\ window' = window \o r.events
          /\ managed' =
                IF r.completion.kind = "throw"
                THEN [managed EXCEPT
                        !.started = n,
                        !.done = Append(@, [call |-> call, applied |-> <<>>,
                                            method |-> "none", leave |-> "none",
                                            after |-> DepthEntry(r.stackDepth, threadId),
                                            result |-> r.completion])]
                ELSE [managed EXCEPT
                        !.started = n,
                        !.ticks = r.ticks,
                        !.stacks[threadId] = Append(@, [call |-> call,
                                                        applied |-> <<args>>])]
    /\ lastOp' = ">"
    /\ UNCHANGED <<handlers, nextId, recvOps, answered, gh, sessionVars, rpc,
                   now, probes, windows>>

\* lines 460-470: the real method of the innermost invocation of a thread
\* finishes: it throws, or it returns and handleJavaInvocation runs onLeave
\* and returns
JavaReturn(threadId, method, outcome) ==
    /\ managed.stacks[threadId] # <<>>
    /\ LET frame == managed.stacks[threadId][Len(managed.stacks[threadId])]
           rest == SubSeq(managed.stacks[threadId], 1, Len(managed.stacks[threadId]) - 1)
           n == frame.call.n
           id == frame.call.id
       IN IF method = "throws"
          THEN /\ outcome = "none"
               /\ managed' = [managed EXCEPT
                      !.stacks[threadId] = rest,
                      !.done = Append(@, [call |-> frame.call, applied |-> frame.applied,
                                          method |-> method, leave |-> "none",
                                          after |-> DepthEntry(stackDepth, threadId),
                                          result |-> [kind |-> "throw",
                                                      value |-> <<n, "method">>]])]
               /\ UNCHANGED <<probeVars, sent, window>>
          ELSE /\ outcome \in Outcomes(handlers[id][2], "<")
               /\ LET r == InvokeJavaHandler(n, id, threadId, "<", outcome)
                      retval == <<"retval", n>>
                      replacementRetval == r.completion.value
                  IN /\ stackDepth' = r.stackDepth
                     /\ SetBatcher(r.batcher)
                     /\ window' = window \o r.events
                     /\ managed' = [managed EXCEPT
                           !.stacks[threadId] = rest,
                           !.ticks = r.ticks,
                           !.done = Append(@, [call |-> frame.call,
                                               applied |-> frame.applied,
                                               method |-> method, leave |-> outcome,
                                               after |-> DepthEntry(r.stackDepth, threadId),
                                               result |->
                                                 IF r.completion.kind = "throw"
                                                 THEN r.completion
                                                 ELSE [kind |-> "return",
                                                       value |->
                                                         IF replacementRetval # <<"undefined">>
                                                         THEN replacementRetval
                                                         ELSE retval]])]
    /\ lastOp' = "<"
    /\ UNCHANGED <<handlers, nextId, recvOps, answered, gh, sessionVars, rpc,
                   now, probes, windows>>

\* lines 513-515: the control loop runs the callback handed to
\* Script.nextTick, which throws the error
NextTick ==
    /\ managed.ticks # <<>>
    /\ managed' = [managed EXCEPT !.ticks = Tail(@),
                                  !.uncaught = Append(@, Head(managed.ticks))]
    /\ UNCHANGED <<agentVars, sent, recvOps, answered, gh, sessionVars, rpc,
                   now, probes, window, windows, lastOp>>

JavaCalls ==
    \E id \in DOMAIN handlers, t \in Threads, args \in Args,
       outcome \in {"returns", "throwsError", "throwsJava"} :
        JavaCall(id, t, args, outcome)

JavaReturns ==
    \E t \in Threads, method \in {"returns", "throws"},
       outcome \in {"returns", "replaces", "throwsError", "throwsJava", "none"} :
        JavaReturn(t, method, outcome)

\* ------------------------------------------------------------------ initial states

AgentInit ==
    /\ handlers = <<>>
    /\ stackDepth = <<>>
    /\ nextId = 1
    /\ pendingEvents = <<>>
    /\ flushTimer = FALSE

HostInit ==
    /\ sent = <<>>
    /\ recvOps = <<>>
    /\ answered = {}

NoPlan == [native |-> [f \in {"c", "objc", "swift"} |-> <<>>],
           javaRules |-> FALSE, java |-> <<>>]

\* no session is starting
SessionIdle ==
    /\ start = [pc |-> "idle", javaStartDeferred |-> TRUE]
    /\ batch = [f \in Flavors |-> BatchNone]
    /\ plan = NoPlan
    /\ trail = <<>>
    /\ java = [state |-> "unavailable", pending |-> <<>>, performed |-> "no"]
    /\ attached = {}
    /\ registered = {}
    /\ rpc = [updates |-> 0, id |-> 0, result |-> "none", calls |-> <<>>]

\* no probe ran yet
DispatchInit ==
    /\ now = 0
    /\ probes = <<>>
    /\ window = <<>>
    /\ windows = <<>>
    /\ lastOp = "init"
    /\ managed = NoCalls

\* ------------------------------------------------------------------ SpecHandlers
\* one call of getHandlers on every scope list within the bounds, with a host
\* that answers each request with one script per member, in request order

ScopeSizes == {0, 1, PageSize - 1, PageSize, PageSize + 1}

BaseIds == {1, 4}

MakeScopes(sizes) ==
    [g \in 1..Len(sizes) |->
        [name |-> g, members |-> [j \in 1..sizes[g] |-> <<g, j>>]]]

SizeLists == UNION {[1..n -> ScopeSizes] : n \in 0..MaxScopes}

InitHandlers ==
    /\ AgentInit
    /\ HostInit
    /\ SessionIdle
    /\ DispatchInit
    /\ \E sizes \in SizeLists, b \in BaseIds :
          gh = [f \in Flavors |->
                  IF f = "c"
                  THEN GhCall([flavor |-> "c", baseId |-> b,
                               scopes |-> MakeScopes(sizes)])
                  ELSE GhIdle]

\* the call itself: the first pass, up to its await
CallGetHandlers ==
    /\ gh["c"].pc = "build"
    /\ Commit(GhRound(Cur, "c"))
    /\ UNCHANGED <<probeVars, dispatchVars, answered, plan, trail, rpc>>

AllBoth(n) == [k \in 1..n |-> "both"]

HostReplyAll ==
    \E i \in 1..Len(sent) : HostReply(i, AllBoth(CountMembers(sent[i].scopes)), {})

NextHandlers == CallGetHandlers \/ HostReplyAll

SpecHandlers == InitHandlers /\ [][NextHandlers]_vars

\* ------------------------------------------------------------------ Spec
\* a session from init on: start-up with its four batches, the managed
\* runtime becoming ready, the host's replies, and update calls

\* the groups of a batch: group g of flavor f has sizes[g] members
MakeGroups(f, sizes) ==
    [g \in 1..Len(sizes) |->
        [name |-> <<f, g>>,
         members |-> [j \in 1..sizes[g] |->
                        [name |-> <<f, g, j>>, address |-> <<f, g, j>>]]]]

\* a native flavor has no group, or one group of at least one target
NativeSizeLists == {<<>>} \cup {<<n>> : n \in 1..MaxTargets}

\* the managed plan has no class, or one class of methods; the class has no
\* method left when exclude rules removed them all
JavaSizeLists == {<<>>} \cup {<<n>> : n \in 0..MaxTargets}

RECURSIVE SumSeq(_)
SumSeq(q) == IF q = <<>> THEN 0 ELSE Head(q) + SumSeq(Tail(q))

\* the scripts the host answers with
SessionBodies == {"both", "bad"}

Init ==
    /\ AgentInit
    /\ HostInit
    /\ DispatchInit
    /\ gh = [f \in Flavors |-> GhIdle]
    /\ start = [pc |-> "init", javaStartDeferred |-> TRUE]
    /\ batch = [f \in Flavors |-> BatchNone]
    /\ trail = <<>>
    /\ \E c \in NativeSizeLists, o \in NativeSizeLists, w \in NativeSizeLists,
          jr \in BOOLEAN, j \in JavaSizeLists :
          /\ (~jr => j = <<>>)
          /\ SumSeq(c) + SumSeq(o) + SumSeq(w) + SumSeq(j) <= MaxTargets
          /\ plan = [native |-> [f \in {"c", "objc", "swift"} |->
                                   MakeGroups(f, IF f = "c" THEN c
                                                 ELSE IF f = "objc" THEN o ELSE w)],
                     javaRules |-> jr,
                     java |-> MakeGroups("java", j)]
    \* the runtime's state is only ever read when there are managed rules
    /\ \E st \in {"unavailable", "loading", "ready"} :
          /\ (~plan.javaRules => st = "unavailable")
          /\ java = [state |-> st, pending |-> <<>>, performed |-> "no"]
    /\ attached = {}
    /\ registered = {}
    /\ rpc = [updates |-> 0, id |-> 0, result |-> "none", calls |-> <<>>]

\* the addresses of the targets of flavor f
Addresses(f) ==
    IF f = "java" THEN {}
    ELSE {m.address : m \in {FlattenMembers(plan.native[f])[k] :
                                k \in 1..CountMembers(plan.native[f])}}

HostReplies ==
    \E i \in 1..Len(sent) :
        /\ sent[i].type = "handlers:get"
        /\ \E bodies \in [1..CountMembers(sent[i].scopes) -> SessionBodies],
              fails \in SUBSET Addresses(sent[i].flavor) :
              HostReply(i, bodies, fails)

\* the scripts update calls carry: update parses them only for a known id
UpdateBodies == {"both"}

\* update with every id up to the first one never assigned
Updates == \E id \in 1..nextId, body \in UpdateBodies : Update(id, body)

Next == Start \/ JavaLoaded \/ HostReplies \/ Updates

Spec == Init /\ [][Next]_vars

\* start-up alone
NextStartup == Start \/ JavaLoaded \/ HostReplies

\* a request was sent that the host has not answered; the callback of its
\* reply is registered by the time the request is sent
Unanswered ==
    \E i \in 1..Len(sent) :
        /\ i \notin answered
        /\ sent[i].type = "handlers:get"
        /\ FirstOp(recvOps, sent[i].baseId) # 0

\* start-up with a host that answers every request it was sent and a managed
\* runtime that finishes loading: init calls start() at once, the runtime
\* runs the callbacks it holds back once it is ready, and every reply of the
\* host is delivered. Each condition is the weak fairness of the action,
\* WF_vars(Start), WF_vars(JavaLoaded), WF_vars(HostReplies), with the guard
\* of the action written in place of ENABLED.
SpecStartup ==
    /\ Init
    /\ [][NextStartup]_vars
    /\ ([]<>(start.pc # "init") \/ []<><<Start>>_vars)
    /\ ([]<>(java.state # "loading") \/ []<><<JavaLoaded>>_vars)
    /\ ([]<>(~Unanswered) \/ []<><<HostReplies>>_vars)

\* the ids a batch took from the counter
BatchIds(f) ==
    IF batch[f].pc = "none" THEN {}
    ELSE batch[f].baseId .. (batch[f].baseId + CountMembers(batch[f].groups) - 1)

IdsDisjoint ==
    /\ \A f \in Flavors, g \in Flavors :
           f # g => BatchIds(f) \cap BatchIds(g) = {}
    /\ \A f \in Flavors : \A id \in BatchIds(f) : id < nextId
    /\ \A r1 \in registered, r2 \in registered : r1[1] = r2[1] => r1 = r2

\* C3: in every interleaving of the three native batches and the managed
\* batch, with the managed callback run at once or deferred, the id ranges
\* taken from nextId are pairwise disjoint, no two targets are registered in
\* the handler table under one id, and nextId never decreases.
C3_IdsNeverCollide == [](IdsDisjoint) /\ [][nextId' >= nextId]_vars

\* a deferred managed batch took its ids after a native batch, and the
\* targets of both are registered
C3_Witness ==
    /\ \E f \in {"c", "objc", "swift"} :
           /\ batch[f].pc = "done"
           /\ BatchIds(f) # {}
           /\ batch["java"].baseId > batch[f].baseId
    /\ batch["java"].pc = "done"
    /\ Cardinality(registered) = 2
    /\ Cardinality(DOMAIN handlers) = 2

\* C10: update with an id that is not in the handler table fails with
\* 'Invalid target ID' and leaves the handler table, the id counter, the
\* depth table, the pending events, the timer, the messages sent and the
\* attachments unchanged.
C10_UpdateUnknownFails ==
    [][(rpc'.updates # rpc.updates /\ rpc'.id \notin DOMAIN handlers) =>
          /\ rpc'.result = "Invalid target ID"
          /\ UNCHANGED <<handlers, nextId, stackDepth, pendingEvents, flushTimer,
                          sent, attached, registered>>]_vars

\* update was refused for an id that was assigned to a target whose
\* provisioning reply is still awaited
C10_Witness ==
    /\ rpc.result = "Invalid target ID"
    /\ rpc.id < nextId
    /\ rpc.id \notin DOMAIN handlers
    /\ \E f \in Flavors : batch[f].pc = "awaiting" /\ rpc.id \in BatchIds(f)


\* the members sent for flavor f in the messages before the i-th
RECURSIVE SentBefore(_, _)
SentBefore(f, i) ==
    IF i <= 1 THEN 0
    ELSE SentBefore(f, i - 1)
         + (IF sent[i - 1].type = "handlers:get" /\ sent[i - 1].flavor = f
            THEN CountMembers(sent[i - 1].scopes) ELSE 0)

\* C1: when getHandlers returns, it returns one script per member of the
\* request, and the k-th script is the one the host produced for the k-th
\* member of the flattened input (scopes in order, members in order).
C1_RoundTripOrder ==
    \A f \in Flavors :
        gh[f].pc = "done" =>
            LET flat == FlattenMembers(gh[f].request.scopes)
            IN /\ Len(gh[f].scripts) = Len(flat)
               /\ \A k \in 1..Len(flat) : gh[f].scripts[k].member = flat[k]

\* a call that returned more than one page of scripts, gathered in two rounds or more
C1_Witness ==
    /\ gh["c"].pc = "done"
    /\ Len(gh["c"].scripts) > PageSize
    /\ Len(sent) >= 2
    /\ Len(gh["c"].request.scopes) >= 2

\* C2: every handlers:get message carries at most PageSize members, its base
\* id is the call's base id plus the members sent in the earlier rounds, and
\* the member at flattened position k is presented under id baseId + k.
C2_PageBoundAndIds ==
    \A i \in 1..Len(sent) :
        sent[i].type = "handlers:get" =>
            LET call == gh[sent[i].flavor]
                flat == FlattenMembers(call.request.scopes)
                ms == FlattenMembers(sent[i].scopes)
                off == sent[i].baseId - call.request.baseId
            IN /\ Len(ms) <= PageSize
               /\ off = SentBefore(sent[i].flavor, i)
               /\ off + Len(ms) <= Len(flat)
               /\ \A p \in 1..Len(ms) : ms[p] = flat[off + p]

\* a second round was sent, under a base id one page after the first
C2_Witness ==
    \E i \in 2..Len(sent) :
        /\ sent[i].type = "handlers:get"
        /\ sent[i].baseId = gh["c"].request.baseId + PageSize
        /\ CountMembers(sent[i].scopes) >= 1

\* ------------------------------------------------------------------ SpecDispatch
\* a running session: start-up completed with one native target, whose
\* probes now fire on any thread in any order, while time passes, the flush
\* timer expires and the host calls dispose

DispatchBodies == {"both", "twice", "enterOnly"}

TheTarget == [name |-> <<"c", 1, 1>>, address |-> <<"c", 1, 1>>]

TheGroups == <<[name |-> <<"c", 1>>, members |-> <<TheTarget>>]>>

InitDispatch ==
    /\ DispatchInit
    /\ stackDepth = <<>>
    /\ pendingEvents = <<>>
    /\ flushTimer = FALSE
    /\ nextId = 2
    /\ \E body \in DispatchBodies :
          LET script == HostScript(1, TheTarget.name, body)
          IN /\ handlers = Put(<<>>, 1, HandlerOf(script))
             /\ gh = [f \in Flavors |->
                        IF f = "c"
                        THEN [pc |-> "done",
                              request |-> [flavor |-> "c", baseId |-> 1,
                                           scopes |-> RequestScopes(TheGroups)],
                              id |-> 2, pendingScopes |-> <<>>,
                              scripts |-> <<script>>]
                        ELSE GhIdle]
    /\ sent = <<[type |-> "handlers:get", flavor |-> "c", baseId |-> 1,
                 scopes |-> RequestScopes(TheGroups)],
                [type |-> "agent:initialized"],
                [type |-> "agent:started", count |-> 1]>>
    /\ recvOps = <<>>
    /\ answered = {1}
    /\ start = [pc |-> "started", javaStartDeferred |-> TRUE]
    /\ batch = [f \in Flavors |->
                  IF f = "c" THEN [pc |-> "done", baseId |-> 1, groups |-> TheGroups]
                  ELSE IF f = "java" THEN BatchNone
                  ELSE [pc |-> "done", baseId |-> 2, groups |-> <<>>]]
    /\ plan = [native |-> [f \in {"c", "objc", "swift"} |->
                             IF f = "c" THEN TheGroups ELSE <<>>],
               javaRules |-> FALSE, java |-> <<>>]
    /\ trail = <<>>
    /\ java = [state |-> "unavailable", pending |-> <<>>, performed |-> "no"]
    /\ attached = {1}
    /\ registered = {<<1, "c", TheTarget.name>>}
    /\ rpc = [updates |-> 0, id |-> 0, result |-> "none", calls |-> <<>>]

NextDispatch == ProbeEnter \/ ProbeLeave \/ Tick \/ TimerExpires \/ Dispose

SpecDispatch == InitDispatch /\ [][NextDispatch]_vars

\* ------------------------------------------------------------------ SpecInvoke
\* a started session with one managed method replaced; the method is called
\* on two threads, also from within itself, its handler and the real method
\* doing whatever they can do

InvokeBodies == {"both", "bad"}

TheJavaGroups == MakeGroups("java", <<1>>)

InitInvoke ==
    /\ DispatchInit
    /\ stackDepth = <<>>
    /\ pendingEvents = <<>>
    /\ flushTimer = FALSE
    /\ nextId = 2
    /\ \E body \in InvokeBodies :
          LET script == HostScript(1, TheJavaGroups[1].members[1].name, body)
          IN /\ handlers = Put(<<>>, 1, HandlerOf(script))
             /\ gh = [f \in Flavors |->
                        IF f = "java"
                        THEN [pc |-> "done",
                              request |-> [flavor |-> "java", baseId |-> 1,
                                           scopes |-> RequestScopes(TheJavaGroups)],
                              id |-> 2, pendingScopes |-> <<>>,
                              scripts |-> <<script>>]
                        ELSE GhIdle]
    /\ sent = <<[type |-> "handlers:get", flavor |-> "java", baseId |-> 1,
                 scopes |-> RequestScopes(TheJavaGroups)],
                [type |-> "agent:initialized"],
                [type |-> "agent:started", count |-> 1]>>
    /\ recvOps = <<>>
    /\ answered = {1}
    /\ start = [pc |-> "started", javaStartDeferred |-> FALSE]
    /\ batch = [f \in Flavors |->
                  IF f = "java" THEN [pc |-> "done", baseId |-> 1, groups |-> TheJavaGroups]
                  ELSE [pc |-> "done", baseId |-> 2, groups |-> <<>>]]
    /\ plan = [native |-> [f \in {"c", "objc", "swift"} |-> <<>>],
               javaRules |-> TRUE, java |-> TheJavaGroups]
    /\ trail = <<>>
    /\ java = [state |-> "ready", pending |-> <<>>, performed |-> "atOnce"]
    /\ attached = {1}
    /\ registered = {<<1, "java", TheJavaGroups[1].members[1].name>>}
    /\ rpc = [updates |-> 0, id |-> 0, result |-> "none", calls |-> <<>>]

NextInvoke == JavaCalls \/ JavaReturns \/ NextTick

SpecInvoke == InitInvoke /\ [][NextInvoke]_vars

\* the events of all probe invocations so far, in the order they were logged
RECURSIVE EventsUpTo(_)
EventsUpTo(n) == IF n = 0 THEN <<>> ELSE EventsUpTo(n - 1) \o probes[n].events

\* the events of the events:add messages sent so far, message by message
RECURSIVE BatchesUpTo(_)
BatchesUpTo(n) ==
    IF n = 0 THEN <<>>
    ELSE IF sent[n].type = "events:add"
         THEN Append(BatchesUpTo(n - 1), sent[n].events)
         ELSE BatchesUpTo(n - 1)

Batches == BatchesUpTo(Len(sent))

RECURSIVE Concat(_)
Concat(qs) == IF qs = <<>> THEN <<>> ELSE Head(qs) \o Concat(Tail(qs))

\* the calls active on thread t after the first n probe invocations: entries minus exits
RECURSIVE Active(_, _)
Active(t, n) ==
    IF n = 0 THEN 0
    ELSE Active(t, n - 1)
         + (IF probes[n].threadId # t THEN 0
            ELSE IF probes[n].cutPoint = ">" THEN 1 ELSE -1)

\* probe invocations i and j are the entry and the exit of one call that is
\* not nested and has no nested call, on a thread whose earlier calls all
\* returned, and both halves of the handler log once
SingleCall(i, j) ==
    /\ i < j
    /\ probes[i].threadId = probes[j].threadId
    /\ probes[i].id = probes[j].id
    /\ probes[i].cutPoint = ">"
    /\ probes[j].cutPoint = "<"
    /\ \A k \in (i + 1)..(j - 1) : probes[k].threadId # probes[i].threadId
    /\ \A k \in 0..(i - 1) : Active(probes[i].threadId, k) >= 0
    /\ Active(probes[i].threadId, i - 1) = 0
    /\ Logs(handlers[probes[i].id][1]) = 1
    /\ Logs(handlers[probes[i].id][2]) = 1

SingleCallEvents(i, j, depth) ==
    /\ Len(probes[i].events) = 1
    /\ Len(probes[j].events) = 1
    /\ probes[i].events[1].depth = depth
    /\ probes[j].events[1].depth = depth
    /\ probes[i].events[1].message[1] = "onEnter"
    /\ probes[j].events[1].message[1] = "onLeave"
    /\ probes[i].events[1].timestamp <= probes[j].events[1].timestamp
    /\ EventsUpTo(Len(probes)) = Concat(Batches) \o pendingEvents

Entries(t) == Cardinality({n \in 1..Len(probes) :
                  probes[n].threadId = t /\ probes[n].cutPoint = ">"})

Exits(t) == Cardinality({n \in 1..Len(probes) :
                probes[n].threadId = t /\ probes[n].cutPoint = "<"})

\* C5: after any sequence of probe entries and exits, the depth table holds
\* no entry for a thread that had as many entries as exits.
C5_NoEntryWhenBalanced ==
    \A t \in Threads : Entries(t) = Exits(t) => t \notin DOMAIN stackDepth

\* C6: neither the depth stored in the depth table nor the depth recorded in
\* a trace event is ever negative.
C6_DepthNeverNegative ==
    /\ \A t \in DOMAIN stackDepth : stackDepth[t] >= 0
    /\ \A n \in 1..Len(probes) : probes[n].depth >= 0

\* C7: the events:add messages are the flush windows: the events emitted
\* between two calls of flush are sent as one batch, in emission order, the
\* events emitted since the last call are the pending queue, and so no
\* event is sent twice or dropped.
C7_BatchesAreWindows ==
    /\ Batches = [k \in 1..Len(windows) |-> windows[k].events]
    /\ pendingEvents = window
    /\ EventsUpTo(Len(probes)) = Concat(Batches) \o pendingEvents

\* two bursts, the first of two events or more, were sent as two batches,
\* each on an expiry of the timer
C7_Witness ==
    /\ Len(windows) = 2
    /\ Len(Batches) = 2
    /\ Len(windows[1].events) >= 2
    /\ windows[1].by = "timer"
    /\ windows[2].by = "timer"

\* a step that calls flush
FlushStep == lastOp' # lastOp /\ lastOp' \in FlushOps

\* C8: flush with an empty queue sends nothing and leaves the queue empty
\* and no timer armed; a flush right after a flush changes nothing.
C8_FlushIdempotent ==
    [][/\ (FlushStep /\ pendingEvents = <<>>) =>
             (sent' = sent /\ pendingEvents' = <<>> /\ flushTimer' = FALSE)
       /\ (FlushStep /\ lastOp' = "redispose") =>
             UNCHANGED <<pendingEvents, flushTimer, sent>>]_vars

\* flush ran right after a flush that had sent a batch
C8_Witness ==
    /\ lastOp = "redispose"
    /\ windows # <<>>
    /\ Len(Batches) = Len(windows)

\* C9: when dispose returns, every event emitted so far has been sent in an
\* events:add message, the queue is empty and no timer is armed.
C9_DisposeFlushesAll ==
    lastOp \in {"dispose", "redispose"} =>
        /\ pendingEvents = <<>>
        /\ flushTimer = FALSE
        /\ Concat(Batches) = EventsUpTo(Len(probes))

\* dispose sent the events that were pending when it was called
C9_Witness ==
    /\ lastOp = "dispose"
    /\ windows # <<>>
    /\ windows[Len(windows)].by = "dispose"
    /\ Len(Batches) = Len(windows)

\* ------------------------------------------------------------------ SpecUpdate
\* a running session whose one native target is updated by the host while
\* its probes fire on any thread

\* the scripts the update calls of a running session carry
LiveBodies == {"both", "leaveOnly", "bad"}

LiveUpdates == \E id \in 1..nextId, body \in LiveBodies : Update(id, body)

NextUpdate == ProbeEnter \/ ProbeLeave \/ LiveUpdates

SpecUpdate == InitDispatch /\ [][NextUpdate]_vars

\* the script the host provisioned target id with
ProvisionedScript(id) ==
    LET f == CHOOSE f \in Flavors : id \in BatchIds(f)
    IN ScriptAt(gh[f].scripts, id - batch[f].baseId + 1)

\* the update calls that replaced the pair of target id before the n-th
\* probe invocation started
UpdatesBefore(id, n) ==
    {k \in 1..Len(rpc.calls) :
        /\ rpc.calls[k].id = id
        /\ rpc.calls[k].result = "ok"
        /\ rpc.calls[k].after < n}

\* the script whose pair the n-th probe invocation has to run
ScriptInForce(id, n) ==
    IF UpdatesBefore(id, n) = {} THEN ProvisionedScript(id)
    ELSE rpc.calls[CHOOSE k \in UpdatesBefore(id, n) :
                      \A j \in UpdatesBefore(id, n) : j <= k].script

\* the pair of every target is the pair of one script, the last one it was
\* given, and every probe invocation ran the half of that pair
PairsWhole ==
    /\ \A id \in DOMAIN handlers :
          handlers[id] = HandlerOf(ScriptInForce(id, Len(probes) + 1))
    /\ \A n \in 1..Len(probes) :
          probes[n].callback =
              HandlerOf(ScriptInForce(probes[n].id, n))
                  [IF probes[n].cutPoint = ">" THEN 1 ELSE 2]

\* C11: update on a known id replaces both halves of the pair together and in
\* place: at every moment the pair of a target comes from one script, every
\* probe invocation that starts after update returned runs the half of the
\* new pair, and update adds or removes no target id and no attachment.
C11_UpdateSwapsPair ==
    /\ [](PairsWhole)
    /\ [][rpc'.updates # rpc.updates =>
            /\ DOMAIN handlers' = DOMAIN handlers
            /\ attached' = attached
            /\ registered' = registered
            /\ \A id \in DOMAIN handlers :
                  (id # rpc'.id \/ rpc'.result # "ok") => handlers'[id] = handlers[id]]_vars

\* update replaced the pair between the entry and the exit of one call: the
\* entry ran the provisioned onEnter and the exit ran the new onLeave
C11_Witness ==
    /\ Len(probes) >= 2
    /\ rpc.result = "ok"
    /\ rpc.calls[1].after = 1
    /\ probes[1].cutPoint = ">"
    /\ probes[2].cutPoint = "<"
    /\ probes[1].threadId = probes[2].threadId
    /\ probes[1].callback.script = ProvisionedScript(1)
    /\ probes[2].callback.script = rpc.calls[1].script
    /\ probes[2].callback.fn = "onLeave"

\* ------------------------------------------------------------------ strings
\* a string is the sequence of its characters

\* String.prototype.indexOf(ch), counted from 0; -1 when ch does not occur
IndexOf(str, ch) ==
    IF \E i \in 1..Len(str) : str[i] = ch
    THEN (CHOOSE i \in 1..Len(str) : str[i] = ch /\ \A j \in 1..(i - 1) : str[j] # ch) - 1
    ELSE -1

\* String.prototype.substr(start, length)
Substr(str, startAt, length) ==
    SubSeq(str, startAt + 1, Min(startAt + length, Len(str)))

RECURSIVE Split(_, _)
\* String.prototype.split(sep) for a separator of one character
Split(str, sep) ==
    IF IndexOf(str, sep) = -1 THEN <<str>>
    ELSE <<SubSeq(str, 1, IndexOf(str, sep))>>
         \o Split(SubSeq(str, IndexOf(str, sep) + 2, Len(str)), sep)

\* String.prototype.split(sep, limit): the first limit pieces
SplitLimit(str, sep, limit) ==
    LET pieces == Split(str, sep) IN SubSeq(pieces, 1, Min(limit, Len(pieces)))

\* String.prototype.replace(from, to) with a string as pattern: the first
\* occurrence only
ReplaceFirst(str, from, to) ==
    IF IndexOf(str, from) = -1 THEN str
    ELSE [str EXCEPT ![IndexOf(str, from) + 1] = to]

\* Array.prototype.slice(-n)
SliceLast(q, n) == SubSeq(q, IF Len(q) > n THEN Len(q) - n + 1 ELSE 1, Len(q))

\* the value null, which is no string
Null == <<"null">>

\* ------------------------------------------------------------------ ordered maps
\* a Map is the sequence of its entries [key, value] in insertion order

MapHas(m, k) == \E i \in 1..Len(m) : m[i].key = k

MapGet(m, k) == m[CHOOSE i \in 1..Len(m) : m[i].key = k].value

\* Map.prototype.set: a key already present keeps its place
MapSet(m, k, v) ==
    IF MapHas(m, k)
    THEN [i \in 1..Len(m) |-> IF m[i].key = k THEN [key |-> k, value |-> v] ELSE m[i]]
    ELSE Append(m, [key |-> k, value |-> v])

\* Map.prototype.delete
MapDelete(m, k) ==
    LET Keep(e) == e.key # k IN SelectSeq(m, Keep)

RECURSIVE MapFromPairs(_)
\* new Map(pairs)
MapFromPairs(pairs) ==
    IF pairs = <<>> THEN <<>>
    ELSE LET last == pairs[Len(pairs)]
         IN MapSet(MapFromPairs(SubSeq(pairs, 1, Len(pairs) - 1)), last.key, last.value)

MapKeys(m) == {m[i].key : i \in 1..Len(m)}

\* ------------------------------------------------------------------ the traced process
\* what the resolvers, the runtimes and the symbol table of the process answer

\* the exports the module resolver knows
Exports ==
    <<[name |-> <<"l", "i", "b", "f", "o", "o", "!", "b", "a", "r">>, address |-> 17],
      [name |-> <<"l", "i", "b", "f", "o", "o", "!", "d", "e", "a", "l", "l", "o", "c">>, address |-> 18]>>

\* the imports the module resolver knows, by importing module
Imports ==
    <<[module |-> <<"a", "p", "p">>, name |-> <<"l", "i", "b", "f", "o", "o", "!", "b", "a", "r">>, address |-> 17],
      [module |-> <<"a", "p", "p">>, name |-> <<"l", "i", "b", "c", "!", "o", "p", "e", "n">>, address |-> 33]>>

\* Process.enumerateModules()[0].path
MainModule == <<"a", "p", "p">>

\* a glob of the resolvers: the star, or the name itself
Glob(pattern, str) == pattern = <<"*">> \/ pattern = str

\* ApiResolver("module").enumerateMatches(`exports:${module}!${function}`)
\* and (`imports:${module}!*`)
ModuleResolver(kind, module, function) ==
    IF kind = "exports"
    THEN LET Hit(m) == /\ Glob(module, Split(m.name, "!")[1])
                       /\ Glob(function, Split(m.name, "!")[2])
         IN SelectSeq(Exports, Hit)
    ELSE LET Hit(m) == Glob(module, m.module) IN SelectSeq(Imports, Hit)

\* Module.getBaseAddress(name)
ModuleBase(name) == 16

\* the methods the Objective-C resolver knows
ObjcMethods ==
    <<[name |-> <<"-", "[", "A", " ", "f", "]">>, address |-> 49],
      [name |-> <<"-", "[", "B", " ", "f", "]">>, address |-> 50],
      [name |-> <<"-", "[", "C", " ", "f", "]">>, address |-> 51],
      [name |-> <<"-", "[", "A", " ", "s", "e", "t", "F", ":", "]">>, address |-> 52],
      [name |-> <<"-", "[", "A", " ", "f", ":", "]">>, address |-> 53],
      [name |-> <<"-", "[", "A", " ", "d", "e", "a", "l", "l", "o", "c", "]">>, address |-> 54]>>

\* ApiResolver("objc").enumerateMatches(query): every method, or the method
\* of that name
ObjcResolver(query) ==
    LET Hit(m) == query = <<"*", "[", "*", " ", "*", "]">> \/ query = m.name IN SelectSeq(ObjcMethods, Hit)

\* ObjC.classes[className]: whether the class exists and can alloc, whether
\* reading $ivars works, and the keys of its instance variables
ObjcClass(className) ==
    IF className = <<"A">>
    THEN [alloc |-> TRUE, throws |-> FALSE, ivars |-> <<<<"_", "f">>>>]
    ELSE IF className = <<"B">>
    THEN [alloc |-> TRUE, throws |-> TRUE, ivars |-> <<>>]
    ELSE [alloc |-> FALSE, throws |-> FALSE, ivars |-> <<>>]

\* the functions the Swift resolver knows
SwiftFunctions == <<[name |-> <<"s", "w", "!", "g">>, address |-> 65]>>

\* ApiResolver("swift").enumerateMatches(`functions:${pattern}`)
SwiftResolver(pattern) ==
    LET Hit(m) == Glob(pattern, m.name) IN SelectSeq(SwiftFunctions, Hit)

\* DebugSymbol.findFunctionsMatching(pattern)
FindFunctionsMatching(pattern) == IF pattern = <<"b", "a", "*">> THEN <<17, 81>> ELSE <<>>

\* DebugSymbol.fromAddress(address)
SymbolFromAddress(address) ==
    IF address = 17 THEN [moduleName |-> <<"l", "i", "b", "f", "o", "o">>, name |-> <<"b", "a", "r">>]
    ELSE [moduleName |-> Null, name |-> <<"b", "a", "q">>]

\* the class loader of the managed classes
Loader == <<"loader", 1>>

\* Java.enumerateMethods(query): one pass over the managed classes
EnumerateMethods(query) ==
    IF query = <<"K", "!", "f", "o", "o">>
    THEN <<[loader |-> Loader,
            classes |-> <<[name |-> <<"K">>, methods |-> <<<<"f", "o", "o", "(", ")", "V">>>>]>>]>>
    ELSE IF query = <<"K", "!", "f", "o", "o", "/", "s">>
    THEN <<[loader |-> Loader,
            classes |-> <<[name |-> <<"K">>, methods |-> <<<<"f", "o", "o", "(", "I", ")", "V">>>>]>>]>>
    ELSE IF query = <<"K", "!", "b">>
    THEN <<[loader |-> Loader,
            classes |-> <<[name |-> <<"K">>, methods |-> <<<<"b", "(", "I", ")", "V">>, <<"b", "(", ")", "V">>>>]>>]>>
    ELSE <<>>

\* String.prototype.toUpperCase on one character
ToUpperCase(ch) == IF ch = "f" THEN "F" ELSE ch

\* the value of a hexadecimal digit
HexDigit(ch) == IF ch = "1" THEN 1 ELSE IF ch = "2" THEN 2 ELSE 0

RECURSIVE ParseHex(_)
\* parseInt(str, 16) on a string of digits
ParseHex(str) ==
    IF str = <<>> THEN 0
    ELSE 16 * ParseHex(SubSeq(str, 1, Len(str) - 1)) + HexDigit(str[Len(str)])

\* Number.prototype.toString(16) below 16
ToHex(n) == IF n = 1 THEN <<"1">> ELSE IF n = 2 THEN <<"2">> ELSE <<"0">>

\* ------------------------------------------------------------------ target plan

\* lines 158-163: the plan and the queue of managed rules start() begins with
EmptyPlan == [native |-> <<>>, javaEntries |-> <<>>]

\* lines 970-973
ModuleFunctionTargetFromMatch(m) ==
    LET parts == SliceLast(Split(m.name, "!"), 2)
    IN [type |-> "c", scope |-> parts[1], name |-> parts[2]]

\* lines 975-990; the type signature of the method is left out
ObjcMethodTargetFromMatch(m) ==
    LET parts == SplitLimit(Substr(m.name, 2, Len(m.name) - 3), " ", 2)
    IN [type |-> "objc", scope |-> parts[1], name |-> <<parts[2], m.name>>]

\* lines 992-996
SwiftFuncTargetFromMatch(m) ==
    LET parts == SplitLimit(m.name, "!", 2)
    IN [type |-> "swift", scope |-> parts[1], name |-> parts[2]]

\* lines 998-1001
DebugSymbolTargetFromAddress(address) ==
    LET symbol == SymbolFromAddress(address)
    IN [type |-> "c",
        scope |-> IF symbol.moduleName = Null THEN <<>> ELSE symbol.moduleName,
        name |-> symbol.name]

\* lines 333, 657, 703: typeof name === "string" ? name : name[1]
DisplayName(target) == IF target.type = "objc" THEN target.name[2] ELSE target.name

\* lines 1003-1019
ParseModuleFunctionPattern(pattern) ==
    LET tokens == SplitLimit(pattern, "!", 2)
    IN IF Len(tokens) = 1
       THEN [module |-> <<"*">>, function |-> tokens[1]]
       ELSE [module |-> IF tokens[1] = <<>> THEN <<"*">> ELSE tokens[1],
             function |-> IF tokens[2] = <<>> THEN <<"*">> ELSE tokens[2]]

\* lines 1021-1028
ParseRelativeFunctionPattern(pattern) ==
    LET tokens == SplitLimit(pattern, "!", 2)
    IN [module |-> tokens[1], offset |-> ParseHex(tokens[2])]

\* lines 618-623
ParseMethodPattern(pattern) ==
    IF pattern = <<>> \/ pattern = Null THEN <<>>
    ELSE Split(ReplaceFirst(pattern, ";", ","), ",")

RECURSIVE SetMatches(_, _, _)
\* the loops of the include rules: native.set(m.address.toString(), target)
\* for every match
SetMatches(native, matches, targets) ==
    IF matches = <<>> THEN native
    ELSE SetMatches(MapSet(native, Head(matches).address, Head(targets)),
                    Tail(matches), Tail(targets))

\* an exclude that stops after the first match
DeleteFirstMatch(native, matches) ==
    IF matches = <<>> THEN native ELSE MapDelete(native, Head(matches).address)

RECURSIVE DeleteMatches(_, _)
\* the loops of the exclude rules: native.delete(m.address.toString()) for
\* every match
DeleteMatches(native, matches) ==
    IF matches = <<>> THEN native
    ELSE DeleteMatches(MapDelete(native, Head(matches).address), Tail(matches))

ModuleTargets(matches) ==
    [i \in 1..Len(matches) |-> ModuleFunctionTargetFromMatch(matches[i])]

\* lines 551-558
IncludeModule(pattern, native) ==
    LET matches == ModuleResolver("exports", pattern, <<"*">>)
    IN SetMatches(native, matches, ModuleTargets(matches))

\* lines 560-567
ExcludeModule(pattern, native) ==
    DeleteMatches(native, ModuleResolver("exports", pattern, <<"*">>))

\* lines 569-577
IncludeFunction(pattern, native) ==
    LET e == ParseModuleFunctionPattern(pattern)
        matches == ModuleResolver("exports", e.module, e.function)
    IN SetMatches(native, matches, ModuleTargets(matches))

\* lines 579-587
ExcludeFunction(pattern, native) ==
    LET e == ParseModuleFunctionPattern(pattern)
    IN DeleteMatches(native, ModuleResolver("exports", e.module, e.function))

\* lines 589-597
IncludeRelativeFunction(pattern, native) ==
    LET e == ParseRelativeFunctionPattern(pattern)
        address == ModuleBase(e.module) + e.offset
    IN MapSet(native, address,
              [type |-> "c", scope |-> e.module,
               name |-> <<"s", "u", "b", "_">> \o ToHex(e.offset)])

\* lines 599-616
IncludeImports(pattern, native) ==
    LET matches == IF pattern = Null
                   THEN ModuleResolver("imports", MainModule, <<"*">>)
                   ELSE ModuleResolver("imports", pattern, <<"*">>)
    IN SetMatches(native, matches, ModuleTargets(matches))

RECURSIVE IncludeObjCFragments(_, _)
\* lines 627-631: the loop over the fragments of the pattern
IncludeObjCFragments(fragments, native) ==
    IF fragments = <<>> THEN native
    ELSE LET matches == ObjcResolver(Head(fragments))
             targets == [i \in 1..Len(matches) |-> ObjcMethodTargetFromMatch(matches[i])]
         IN IncludeObjCFragments(Tail(fragments), SetMatches(native, matches, targets))

\* lines 625-632
IncludeObjCMethod(pattern, native) ==
    IncludeObjCFragments(ParseMethodPattern(pattern), native)

RECURSIVE ExcludeObjCFragments(_, _)
\* lines 636-640
ExcludeObjCFragments(fragments, native) ==
    IF fragments = <<>> THEN native
    ELSE ExcludeObjCFragments(Tail(fragments),
                              DeleteMatches(native, ObjcResolver(Head(fragments))))

\* lines 634-641
ExcludeObjCMethod(pattern, native) ==
    ExcludeObjCFragments(ParseMethodPattern(pattern), native)

\* ------------------------------------------------------------------ regular expressions
\* the fragments of a filter rule are letters, which match themselves, or
\* hold a star or a parenthesis that no expression can start with or leave
\* open

\* line 648: new RegExp(pt, "g") does not throw
RegExpValid(pt) == \A i \in 1..Len(pt) : pt[i] \notin {"*", "(", ")", "[", "]"}

\* the source occurs in str at index i, counted from 0
OccursAt(source, str, i) ==
    /\ i + Len(source) <= Len(str)
    /\ \A k \in 1..Len(source) : str[i + k] = source[k]

\* line 660: RegExp.prototype.test of an expression with the g flag: the
\* search starts at lastIndex; a match leaves lastIndex at its end, a failure
\* leaves it at 0
RegExpTest(source, lastIndex, str) ==
    IF \E i \in lastIndex..Len(str) : OccursAt(source, str, i)
    THEN LET i == CHOOSE i \in lastIndex..Len(str) :
                     /\ OccursAt(source, str, i)
                     /\ \A j \in lastIndex..(i - 1) : ~OccursAt(source, str, j)
         IN [matched |-> TRUE, lastIndex |-> i + Len(source)]
    ELSE [matched |-> FALSE, lastIndex |-> 0]

RECURSIVE ValidRegExps(_)
\* lines 645-651: one expression per fragment that compiles, lastIndex 0
ValidRegExps(fragments) ==
    IF fragments = <<>> THEN <<>>
    ELSE (IF RegExpValid(Head(fragments))
          THEN <<[source |-> Head(fragments), lastIndex |-> 0]>> ELSE <<>>)
         \o ValidRegExps(Tail(fragments))

RECURSIVE TestAny(_, _, _)
\* lines 658-664: test the expressions in turn from the k-th on, up to the
\* first that matches; the expressions tested keep their lastIndex
TestAny(regList, k, displayName) ==
    IF k > Len(regList) THEN [matched |-> FALSE, regList |-> regList]
    ELSE LET r == RegExpTest(regList[k].source, regList[k].lastIndex, displayName)
             regs == [regList EXCEPT ![k].lastIndex = r.lastIndex]
         IN IF r.matched THEN [matched |-> TRUE, regList |-> regs]
            ELSE TestAny(regs, k + 1, displayName)

RECURSIVE FilterEntries(_, _, _)
\* lines 656-668: the loop over the entries of the plan, from the k-th on;
\* the sequence of those that stay
FilterEntries(entries, k, regList) ==
    IF k > Len(entries) THEN <<>>
    ELSE LET t == TestAny(regList, 1, DisplayName(entries[k].value))
         IN (IF t.matched THEN <<entries[k]>> ELSE <<>>)
            \o FilterEntries(entries, k + 1, t.regList)

\* lines 643-669
FilterObjCMethod(pattern, native) ==
    LET regList == ValidRegExps(ParseMethodPattern(pattern))
    IN IF Len(regList) = 0 THEN native
       ELSE FilterEntries(native, 1, regList)

\* ------------------------------------------------------------------ properties

\* line 679: str.replace(/^./, (str) => str.toUpperCase())
CapitalizeFirstLetter(str) ==
    IF str = <<>> THEN str ELSE <<ToUpperCase(str[1])>> \o Tail(str)

\* a rule that knows the getter of an instance variable only
GetterOnly(className, key) ==
    {<<"-", "[">> \o className \o <<" ">> \o SubSeq(key, 2, Len(key)) \o <<"]">>}

\* lines 690-697: the getter and the setter of one instance variable
PropertyMethodsOfKey(className, key) ==
    LET name == SubSeq(key, 2, Len(key))
    IN {<<"-", "[">> \o className \o <<" ">> \o name \o <<"]">>,
        <<"-", "[">> \o className \o <<" ", "s", "e", "t">> \o CapitalizeFirstLetter(name) \o <<":", "]">>}

\* lines 682-699: the names gathered for the classes that can be
\* instantiated
PropertyMethodNames(classNames) ==
    UNION {IF ObjcClass(classNames[c]).alloc /\ ~ObjcClass(classNames[c]).throws
           THEN UNION {PropertyMethodsOfKey(classNames[c], ObjcClass(classNames[c]).ivars[k]) :
                          k \in 1..Len(ObjcClass(classNames[c]).ivars)}
           ELSE {} : c \in 1..Len(classNames)}

\* line 700
OtherIgnoreSet == {<<"c", "x", "x", "_", "d", "e", "s", "t", "r", "u", "c", "t">>, <<"d", "e", "a", "l", "l", "o", "c">>, <<"a", "l", "l", "o", "c">>}

\* lines 671-711
ExcludeObjCProperty(pattern, native) ==
    IF pattern = <<>> \/ pattern = Null THEN native
    ELSE LET classNames == Split(ReplaceFirst(pattern, ";", ","), ",")
             methodNameSet == PropertyMethodNames(classNames)
             Keep(e) == /\ DisplayName(e.value) \notin methodNameSet
                        /\ DisplayName(e.value) \notin OtherIgnoreSet
         IN SelectSeq(native, Keep)

\* lines 713-720
IncludeSwiftFunc(pattern, native) ==
    LET matches == SwiftResolver(pattern)
    IN SetMatches(native, matches,
                  [i \in 1..Len(matches) |-> SwiftFuncTargetFromMatch(matches[i])])

\* lines 722-729
ExcludeSwiftFunc(pattern, native) == DeleteMatches(native, SwiftResolver(pattern))

\* lines 822-830
IncludeDebugSymbol(pattern, native) ==
    LET addresses == FindFunctionsMatching(pattern)
        matches == [i \in 1..Len(addresses) |-> [address |-> addresses[i]]]
    IN SetMatches(native, matches,
                  [i \in 1..Len(addresses) |-> DebugSymbolTargetFromAddress(addresses[i])])

\* ------------------------------------------------------------------ managed plan
\* plan.java: the groups in the order they were pushed, each a loader and a
\* Map of classes, each class a Map from bare method name to method name

\* lines 1057-1062
JavaBareMethodNameFromMethodName(fullName) ==
    IF IndexOf(fullName, "(") = -1 THEN fullName
    ELSE Substr(fullName, 0, IndexOf(fullName, "("))

\* lines 1044-1055
JavaTargetClassFromMatchClass(klass) ==
    [methods |-> MapFromPairs([i \in 1..Len(klass.methods) |->
                    [key |-> JavaBareMethodNameFromMethodName(klass.methods[i]),
                     value |-> klass.methods[i]]])]

\* lines 1030-1042
JavaTargetGroupFromMatchGroup(group) ==
    [loader |-> group.loader,
     classes |-> MapFromPairs([i \in 1..Len(group.classes) |->
                    [key |-> group.classes[i].name,
                     value |-> JavaTargetClassFromMatchClass(group.classes[i])]])]

\* lines 738-745, 1064-1073: the position of the first group of that loader,
\* 0 when there is none
FindGroup(existingGroups, loader) ==
    IF \E i \in 1..Len(existingGroups) : existingGroups[i].loader = loader
    THEN CHOOSE i \in 1..Len(existingGroups) :
            /\ existingGroups[i].loader = loader
            /\ \A j \in 1..(i - 1) : existingGroups[j].loader # loader
    ELSE 0

\* a merge that keeps the name it was given last
KeepLatest(methodName, existingName) == methodName

\* lines 774-776: the longer of the two, the one already stored on a tie
KeepLonger(methodName, existingName) ==
    IF Len(methodName) > Len(existingName) THEN methodName ELSE existingName

RECURSIVE MergeMethods(_, _)
\* lines 765-779
MergeMethods(existingMethods, methods) ==
    IF methods = <<>> THEN existingMethods
    ELSE LET methodName == Head(methods)
             bareMethodName == JavaBareMethodNameFromMethodName(methodName)
             merged == IF ~MapHas(existingMethods, bareMethodName)
                       THEN MapSet(existingMethods, bareMethodName, methodName)
                       ELSE MapSet(existingMethods, bareMethodName,
                                   KeepLonger(methodName,
                                              MapGet(existingMethods, bareMethodName)))
         IN MergeMethods(merged, Tail(methods))

RECURSIVE MergeClasses(_, _)
\* lines 752-780
MergeClasses(existingClasses, classes) ==
    IF classes = <<>> THEN existingClasses
    ELSE LET klass == Head(classes)
             merged == IF ~MapHas(existingClasses, klass.name)
                       THEN MapSet(existingClasses, klass.name,
                                   JavaTargetClassFromMatchClass(klass))
                       ELSE MapSet(existingClasses, klass.name,
                                   [methods |-> MergeMethods(
                                       MapGet(existingClasses, klass.name).methods,
                                       klass.methods)])
         IN MergeClasses(merged, Tail(classes))

RECURSIVE IncludeJavaGroups(_, _)
\* lines 735-781
IncludeJavaGroups(existingGroups, groups) ==
    IF groups = <<>> THEN existingGroups
    ELSE LET group == Head(groups)
             g == FindGroup(existingGroups, group.loader)
             merged == IF g = 0
                       THEN Append(existingGroups, JavaTargetGroupFromMatchGroup(group))
                       ELSE [existingGroups EXCEPT ![g].classes =
                                MergeClasses(@, group.classes)]
         IN IncludeJavaGroups(merged, Tail(groups))

\* lines 731-782
IncludeJavaMethod(pattern, existingGroups) ==
    IncludeJavaGroups(existingGroups, EnumerateMethods(pattern))

RECURSIVE DeleteMethods(_, _)
\* lines 813-817
DeleteMethods(existingMethods, methods) ==
    IF methods = <<>> THEN existingMethods
    ELSE DeleteMethods(MapDelete(existingMethods,
                                 JavaBareMethodNameFromMethodName(Head(methods))),
                       Tail(methods))

RECURSIVE ExcludeClasses(_, _)
\* lines 804-818
ExcludeClasses(existingClasses, classes) ==
    IF classes = <<>> THEN existingClasses
    ELSE LET klass == Head(classes)
             left == IF ~MapHas(existingClasses, klass.name) THEN existingClasses
                     ELSE MapSet(existingClasses, klass.name,
                                 [methods |-> DeleteMethods(
                                     MapGet(existingClasses, klass.name).methods,
                                     klass.methods)])
         IN ExcludeClasses(left, Tail(classes))

RECURSIVE ExcludeJavaGroups(_, _)
\* lines 788-819
ExcludeJavaGroups(existingGroups, groups) ==
    IF groups = <<>> THEN existingGroups
    ELSE LET group == Head(groups)
             g == FindGroup(existingGroups, group.loader)
             left == IF g = 0 THEN existingGroups
                     ELSE [existingGroups EXCEPT ![g].classes =
                              ExcludeClasses(@, group.classes)]
         IN ExcludeJavaGroups(left, Tail(groups))

\* lines 784-820
ExcludeJavaMethod(pattern, existingGroups) ==
    ExcludeJavaGroups(existingGroups, EnumerateMethods(pattern))

RECURSIVE JavaReplay(_, _)
\* lines 233-239: the callback of Java.perform goes through the queued
\* rules, from an empty plan.java
JavaReplay(javaEntries, existingGroups) ==
    IF javaEntries = <<>> THEN existingGroups
    ELSE LET operation == Head(javaEntries)[1]
             pattern == Head(javaEntries)[2]
         IN JavaReplay(Tail(javaEntries),
                       IF operation = "include"
                       THEN IncludeJavaMethod(pattern, existingGroups)
                       ELSE ExcludeJavaMethod(pattern, existingGroups))

\* plan.java once the callback of Java.perform went through the queue
PlanJava(p) == JavaReplay(p.javaEntries, <<>>)

\* ------------------------------------------------------------------ rules

Operations == {"include", "exclude", "filter"}

Scopes == {"module", "function", "relative-function", "imports", "objc-method",
           "objc-property", "swift-func", "java-method", "debug-symbol"}

\* lines 165-219: the switch on the scope, for the scopes of the native plan
NativeRule(operation, scope, pattern, native) ==
    IF scope = "module"
    THEN (IF operation = "include" THEN IncludeModule(pattern, native)
          ELSE ExcludeModule(pattern, native))
    ELSE IF scope = "function"
    THEN (IF operation = "include" THEN IncludeFunction(pattern, native)
          ELSE ExcludeFunction(pattern, native))
    ELSE IF scope = "relative-function"
    THEN (IF operation = "include" THEN IncludeRelativeFunction(pattern, native)
          ELSE native)
    ELSE IF scope = "imports"
    THEN (IF operation = "include" THEN IncludeImports(pattern, native) ELSE native)
    ELSE IF scope = "objc-method"
    THEN (IF operation = "include" THEN IncludeObjCMethod(pattern, native)
          ELSE IF operation = "exclude" THEN ExcludeObjCMethod(pattern, native)
          ELSE IF operation = "filter" THEN FilterObjCMethod(pattern, native)
          ELSE native)
    ELSE IF scope = "objc-property"
    THEN (IF operation = "exclude" THEN ExcludeObjCProperty(pattern, native)
          ELSE native)
    ELSE IF scope = "swift-func"
    THEN (IF operation = "include" THEN IncludeSwiftFunc(pattern, native)
          ELSE ExcludeSwiftFunc(pattern, native))
    ELSE IF scope = "debug-symbol"
    THEN (IF operation = "include" THEN IncludeDebugSymbol(pattern, native)
          ELSE native)
    ELSE native

\* lines 164-220: one pass of the loop over the specification
ApplyRule(p, rule) ==
    IF rule[2] = "java-method"
    THEN [p EXCEPT !.javaEntries = Append(@, <<rule[1], rule[3]>>)]
    ELSE [p EXCEPT !.native = NativeRule(rule[1], rule[2], rule[3], @)]

\* the patterns of the rules explored, by scope
Patterns(scope) ==
    IF scope = "module" THEN {<<"l", "i", "b", "f", "o", "o">>}
    ELSE IF scope = "function" THEN {<<"l", "i", "b", "f", "o", "o", "!", "b", "a", "r">>}
    ELSE IF scope = "relative-function" THEN {<<"l", "i", "b", "f", "o", "o", "!", "1">>}
    ELSE IF scope = "imports" THEN {<<"a", "p", "p">>}
    ELSE IF scope = "objc-method" THEN {<<"*", "[", "*", " ", "*", "]">>, <<"f">>, <<"(", ",", "B">>}
    ELSE IF scope = "objc-property" THEN {<<"A">>}
    ELSE IF scope = "swift-func" THEN {<<"*">>}
    ELSE IF scope = "java-method" THEN {<<"K", "!", "f", "o", "o">>, <<"K", "!", "f", "o", "o", "/", "s">>}
    ELSE {<<"b", "a", "*">>}

Rules == {r \in Operations \X Scopes \X UNION {Patterns(s) : s \in Scopes} :
             r[3] \in Patterns(r[2])}

\* the plan the loop holds after the rules it went through
PlanNow == IF trail = <<>> THEN EmptyPlan ELSE trail[Len(trail)].plan

\* the plan the loop held before the k-th rule
PlanBefore(k) == IF k = 1 THEN EmptyPlan ELSE trail[k - 1].plan

\* lines 164-220: the loop takes the next rule of the specification
TakeRule(rule) ==
    /\ Len(trail) < MaxRules
    /\ trail' = Append(trail, [rule |-> rule, plan |-> ApplyRule(PlanNow, rule)])
    /\ UNCHANGED <<agentVars, sent, recvOps, answered, gh, start, batch, plan, java,
                   attached, registered, rpc, dispatchVars>>

NextPlan == \E rule \in Rules : TakeRule(rule)

InitPlan ==
    /\ AgentInit
    /\ HostInit
    /\ SessionIdle
    /\ DispatchInit
    /\ gh = [f \in Flavors |-> GhIdle]

SpecPlan == InitPlan /\ [][NextPlan]_vars

\* the patterns of the managed rules explored: a class whose method has two
\* overloads, reported in one pass
ManagedPatterns == Patterns("java-method") \cup {<<"K", "!", "b">>}

ManagedRules == Operations \X {"java-method"} \X ManagedPatterns

\* lines 164-220, 233-239: a specification of managed rules only
NextManaged == \E rule \in ManagedRules : TakeRule(rule)

SpecManaged == InitPlan /\ [][NextManaged]_vars

\* the Objective-C rules explored: methods by name and by lists of names,
\* classes by name and by lists of names, and the include of an export that
\* is named like a lifecycle method
ObjcRules ==
    (Operations \X {"objc-method"} \X
        {<<"*", "[", "*", " ", "*", "]">>, <<"-", "[", "A", " ", "s", "e", "t", "F", ":", "]">>, <<"-", "[", "A", " ", "f", ":", "]">>,
         <<"-", "[", "A", " ", "f", "]", ";", "-", "[", "B", " ", "f", "]", ";", "-", "[", "C", " ", "f", "]">>})
    \cup ({"exclude"} \X {"objc-property"} \X
        {<<"A">>, <<"B">>, <<"Z">>, <<"Z", ";", "B", ";", "A">>})
    \cup {<<"include", "function", <<"l", "i", "b", "f", "o", "o", "!", "d", "e", "a", "l", "l", "o", "c">>>>}

\* lines 164-220: a specification of Objective-C rules
NextObjc == \E rule \in ObjcRules : TakeRule(rule)

SpecObjc == InitPlan /\ [][NextObjc]_vars

\* ------------------------------------------------------------------ claims on the plan

\* the rules k-1 and k of the trail are operation first on a scope and a
\* pattern, then operation second on the same scope and pattern
RulePair(k, first, second) ==
    /\ k \in 2..Len(trail)
    /\ trail[k - 1].rule[1] = first
    /\ trail[k].rule[1] = second
    /\ trail[k - 1].rule[2] = trail[k].rule[2]
    /\ trail[k - 1].rule[3] = trail[k].rule[3]

\* the addresses a rule (include, scope, pattern) resolves to
ResolvedBy(scope, pattern) == MapKeys(NativeRule("include", scope, pattern, <<>>))

\* the entries of a native plan without those at the addresses
Without(native, addresses) ==
    LET Keep(e) == e.key \notin addresses IN SelectSeq(native, Keep)

\* every entry of the native plan after is an entry of the native plan before
EntriesAmong(after, before) ==
    \A i \in 1..Len(after) : \E j \in 1..Len(before) : after[i] = before[j]

\* C16 as it is stated: for every scope and pattern, (include, scope, P)
\* followed by (exclude, scope, P) leaves only targets that were planned
\* before at addresses P does not resolve to; none, from an empty plan.
C16_IncludeExcludeCancels ==
    \A k \in 1..Len(trail) :
        RulePair(k, "include", "exclude") =>
            LET after == trail[k].plan.native
            IN /\ MapKeys(after) \cap ResolvedBy(trail[k].rule[2], trail[k].rule[3]) = {}
               /\ EntriesAmong(after, PlanBefore(k - 1).native)

\* the scopes that have an exclude rule of their own pattern
ExcludableScopes == {"module", "function", "objc-method", "swift-func"}

\* the scopes whose include rule has no exclude rule
IncludeOnlyScopes == {"relative-function", "imports", "debug-symbol"}

\* C16, amended: for the scopes module, function, objc-method and swift-func
\* and every pattern P, (include, scope, P) followed by (exclude, scope, P)
\* leaves exactly the targets planned before at the addresses P does not
\* resolve to, in their order, and none from an empty plan; for the scopes
\* relative-function, imports and debug-symbol the exclude rule does nothing
\* and the targets the include rule planned stay; for java-method the pair
\* leaves the native plan as it was.
C16_IncludeExcludeCancelsWhereDefined ==
    \A k \in 1..Len(trail) :
        RulePair(k, "include", "exclude") =>
            LET scope == trail[k].rule[2]
                before == PlanBefore(k - 1).native
                between == trail[k - 1].plan.native
                after == trail[k].plan.native
                resolved == ResolvedBy(scope, trail[k].rule[3])
            IN /\ scope \in ExcludableScopes => after = Without(before, resolved)
               /\ scope \in IncludeOnlyScopes =>
                     (after = between /\ resolved \subseteq MapKeys(after))
               /\ scope = "java-method" => after = before

\* a rule planned two targets, then a function of them was included and
\* excluded again: the other target stays
C16_Witness ==
    /\ Len(trail) = 3
    /\ RulePair(3, "include", "exclude")
    /\ trail[3].rule[2] \in ExcludableScopes
    /\ trail[1].rule[2] # trail[3].rule[2]
    /\ ResolvedBy(trail[3].rule[2], trail[3].rule[3]) \cap MapKeys(trail[1].plan.native) # {}
    /\ trail[3].plan.native # <<>>
    /\ Len(trail[3].plan.native) < Len(trail[1].plan.native)

\* C17: filter objc-method P twice in a row leaves the native plan the first
\* filter left.
C17_FilterIdempotent ==
    \A k \in 1..Len(trail) :
        (RulePair(k, "filter", "filter") /\ trail[k].rule[2] = "objc-method") =>
            trail[k].plan.native = trail[k - 1].plan.native

\* the expression of the fragment matches somewhere in the string
Matches(source, str) == \E i \in 0..Len(str) : OccursAt(source, str, i)

\* the fragments of a pattern that compile
ValidFragments(pattern) ==
    LET fragments == ParseMethodPattern(pattern)
    IN {fragments[i] : i \in {j \in 1..Len(fragments) : RegExpValid(fragments[j])}}

\* the entries whose display name matches one of the fragments
MatchingEntries(native, fragments) ==
    LET Keep(e) == \E f \in fragments : Matches(f, DisplayName(e.value))
    IN SelectSeq(native, Keep)

\* C18: filter objc-method P with a fragment that compiles leaves exactly
\* the planned targets whose display name matches one of those fragments,
\* whatever the order and the other targets; with no such fragment it
\* leaves the plan as it was.
C18_FilterKeepsMatching ==
    \A k \in 1..Len(trail) :
        (trail[k].rule[1] = "filter" /\ trail[k].rule[2] = "objc-method") =>
            LET before == PlanBefore(k).native
                valid == ValidFragments(trail[k].rule[3])
            IN trail[k].plan.native =
                  IF valid = {} THEN before ELSE MatchingEntries(before, valid)

\* the (operation, scope) combinations that are defined
DefinedRules ==
    ({"include", "exclude"} \X {"module", "function", "objc-method", "swift-func",
                                "java-method"})
    \cup ({"include"} \X {"relative-function", "imports", "debug-symbol"})
    \cup {<<"filter", "objc-method">>, <<"exclude", "objc-property">>}

\* C19: a rule whose (operation, scope) combination is not defined leaves
\* the native plan and the managed plan as they were.
C19_UndefinedRuleIsNoop ==
    \A k \in 1..Len(trail) :
        <<trail[k].rule[1], trail[k].rule[2]>> \notin DefinedRules =>
            /\ trail[k].plan.native = PlanBefore(k).native
            /\ PlanJava(trail[k].plan) = PlanJava(PlanBefore(k))

\* what one pass reports: loader, class, bare method name, method name
Reported(query) ==
    LET groups == EnumerateMethods(query)
    IN UNION {UNION {{<<groups[g].loader, groups[g].classes[c].name,
                        JavaBareMethodNameFromMethodName(groups[g].classes[c].methods[m]),
                        groups[g].classes[c].methods[m]>> :
                          m \in 1..Len(groups[g].classes[c].methods)} :
                     c \in 1..Len(groups[g].classes)} :
              g \in 1..Len(groups)}

\* the method name stored for a bare name, Null when there is none
Stored(groups, loader, className, bareName) ==
    IF FindGroup(groups, loader) = 0 THEN Null
    ELSE LET classes == groups[FindGroup(groups, loader)].classes
         IN IF ~MapHas(classes, className) THEN Null
            ELSE IF ~MapHas(MapGet(classes, className).methods, bareName) THEN Null
            ELSE MapGet(MapGet(classes, className).methods, bareName)

\* C20: when two include java-method rules in a row report, for one loader,
\* class and bare method name, method names of different lengths, the name
\* stored afterwards is the same as with the two rules in the opposite
\* order; it is the longer of the two when none was stored before, and
\* never shorter than it.
C20_MergeCommutesOnLength ==
    \A k \in 1..Len(trail) :
        (/\ k >= 2
         /\ trail[k - 1].rule[2] = "java-method" /\ trail[k - 1].rule[1] = "include"
         /\ trail[k].rule[2] = "java-method" /\ trail[k].rule[1] = "include") =>
            \A a \in Reported(trail[k - 1].rule[3]), b \in Reported(trail[k].rule[3]) :
                (a[1] = b[1] /\ a[2] = b[2] /\ a[3] = b[3] /\ Len(a[4]) # Len(b[4])) =>
                    LET entries == PlanBefore(k - 1).javaEntries
                        longer == IF Len(a[4]) > Len(b[4]) THEN a[4] ELSE b[4]
                        was == Stored(PlanJava(PlanBefore(k - 1)), a[1], a[2], a[3])
                        is == Stored(PlanJava(trail[k].plan), a[1], a[2], a[3])
                        swapped == Stored(JavaReplay(entries \o <<<<"include", trail[k].rule[3]>>,
                                                                  <<"include", trail[k - 1].rule[3]>>>>,
                                                     <<>>), a[1], a[2], a[3])
                    IN /\ is = swapped
                       /\ Len(is) >= Len(longer)
                       /\ was = Null => is = longer

\* the pass that reports the longer name ran first, on a plan that stored no
\* name, and the longer name is stored after the pass that reports the
\* shorter one
C20_Witness ==
    /\ Len(trail) >= 2
    /\ trail[Len(trail) - 1].rule = <<"include", "java-method", <<"K", "!", "f", "o", "o", "/", "s">>>>
    /\ trail[Len(trail)].rule = <<"include", "java-method", <<"K", "!", "f", "o", "o">>>>
    /\ Stored(PlanJava(PlanBefore(Len(trail) - 1)), Loader, <<"K">>, <<"f", "o", "o">>) = Null
    /\ Stored(PlanJava(PlanNow), Loader, <<"K">>, <<"f", "o", "o">>) = <<"f", "o", "o", "(", "I", ")", "V">>

\* the rules 1 to k of the trail are include java-method rules
IncludesOnly(k) ==
    \A i \in 1..k : trail[i].rule[1] = "include" /\ trail[i].rule[2] = "java-method"

\* C21: after a sequence of include java-method rules, the method name stored
\* for a bare name of a class of a loader is one of the names the passes
\* reported for it and no reported name is longer, also when one pass that
\* creates the group or the class reports several overloads of the bare name.
C21_StoredIsLongestObserved ==
    \A k \in 1..Len(trail) :
        IncludesOnly(k) =>
            \A i \in 1..k : \A a \in Reported(trail[i].rule[3]) :
                LET is == Stored(PlanJava(trail[k].plan), a[1], a[2], a[3])
                IN /\ is # Null
                   /\ Len(is) >= Len(a[4])
                   /\ \E j \in 1..k : \E b \in Reported(trail[j].rule[3]) :
                          b[1] = a[1] /\ b[2] = a[2] /\ b[3] = a[3] /\ b[4] = is

\* the fragments of a pattern separated at every ";" and every ","
Fragments(pattern) ==
    Split([i \in 1..Len(pattern) |-> IF pattern[i] = ";" THEN "," ELSE pattern[i]], ",")

\* the class exists, can alloc and its instance variables can be read
Instantiable(className) == ObjcClass(className).alloc /\ ~ObjcClass(className).throws

\* the planned target is a getter, a setter or a lifecycle method of one of
\* the classes, which can be instantiated
PropertyTarget(target, classes) ==
    /\ target.type = "objc"
    /\ target.scope \in classes
    /\ Instantiable(target.scope)
    /\ \/ DisplayName(target) \in PropertyMethodNames(<<target.scope>>)
       \/ target.name[1] \in OtherIgnoreSet

\* C22: exclude objc-property P, for a list P the rule separates into its
\* class names, removes exactly the planned getters and setters of the
\* instance variables and the planned cxx_destruct, dealloc and alloc methods
\* of the classes of P that can be instantiated; every other target stays.
C22_PropertyExcludeRemovesClassMethods ==
    \A k \in 1..Len(trail) :
        (/\ trail[k].rule[1] = "exclude" /\ trail[k].rule[2] = "objc-property"
         /\ ParseMethodPattern(trail[k].rule[3]) = Fragments(trail[k].rule[3])) =>
            LET classes == {Fragments(trail[k].rule[3])[i] :
                              i \in 1..Len(Fragments(trail[k].rule[3]))}
                Keep(e) == ~PropertyTarget(e.value, classes)
            IN trail[k].plan.native = SelectSeq(PlanBefore(k).native, Keep)

\* the rules k-1 and k of the trail are an include objc-method rule and an
\* exclude objc-property rule
IncludeThenPropertyExclude(k) ==
    /\ k \in 2..Len(trail)
    /\ trail[k - 1].rule[1] = "include" /\ trail[k - 1].rule[2] = "objc-method"
    /\ trail[k].rule[1] = "exclude" /\ trail[k].rule[2] = "objc-property"

\* the display names "-[C name]" and "-[C setName:]" for the instance
\* variables of a class that can be instantiated
AccessorNames(className) ==
    IF ~Instantiable(className) THEN {}
    ELSE UNION {LET name == SubSeq(ObjcClass(className).ivars[i], 2,
                                   Len(ObjcClass(className).ivars[i]))
                IN {<<"-", "[">> \o className \o <<" ">> \o name \o <<"]">>,
                    <<"-", "[">> \o className \o <<" ", "s", "e", "t">>
                       \o CapitalizeFirstLetter(name) \o <<":", "]">>} :
                  i \in 1..Len(ObjcClass(className).ivars)}

\* the display names "-[C name:]" for the instance variables of a class that
\* can be instantiated
ColonNames(className) ==
    IF ~Instantiable(className) THEN {}
    ELSE {<<"-", "[">> \o className \o <<" ">>
             \o SubSeq(ObjcClass(className).ivars[i], 2, Len(ObjcClass(className).ivars[i]))
             \o <<":", "]">> : i \in 1..Len(ObjcClass(className).ivars)}

\* the display names of the planned targets
DisplayNames(native) == {DisplayName(native[i].value) : i \in 1..Len(native)}

\* C23 as it is stated: after (include, objc-method, "-[C name:]") followed
\* by (exclude, objc-property, "C"), where name is an instance variable of
\* the class C, the plan does not hold the target -[C name:].
C23_ColonSetterOverridden ==
    \A k \in 1..Len(trail) :
        IncludeThenPropertyExclude(k) =>
            (trail[k - 1].rule[3] \in ColonNames(trail[k].rule[3]) =>
                trail[k - 1].rule[3] \notin DisplayNames(trail[k].plan.native))

\* C23, amended: rules take effect in their order and the later rule
\* overrides: after (include, objc-method, M) followed by (exclude,
\* objc-property, C) for one class C, a target M planned is gone when its
\* display name is "-[C name]" or "-[C setName:]" for an instance variable of
\* C, which can be instantiated, and every other target M planned stays: so
\* -[C setName:] included first is not in the plan, and -[C name:] is.
C23_SetterOverriddenByLaterRule ==
    \A k \in 1..Len(trail) :
        (IncludeThenPropertyExclude(k) /\ Len(Fragments(trail[k].rule[3])) = 1) =>
            LET between == trail[k - 1].plan.native
                after == trail[k].plan.native
                resolved == ResolvedBy("objc-method", trail[k - 1].rule[3])
            IN \A i \in 1..Len(between) :
                  between[i].key \in resolved =>
                      IF DisplayName(between[i].value) \in AccessorNames(trail[k].rule[3])
                      THEN between[i].key \notin MapKeys(after)
                      ELSE \E j \in 1..Len(after) : after[j] = between[i]

\* the setter -[A setF:] was included by name, then the properties of A
\* were excluded, and the plan is empty
C23_Witness ==
    /\ Len(trail) = 2
    /\ trail[1].rule = <<"include", "objc-method", <<"-", "[", "A", " ", "s", "e", "t", "F", ":", "]">>>>
    /\ trail[2].rule = <<"exclude", "objc-property", <<"A">>>>
    /\ DisplayNames(trail[1].plan.native) = {<<"-", "[", "A", " ", "s", "e", "t", "F", ":", "]">>}
    /\ trail[2].plan.native = <<>>

\* what a rule on Objective-C methods or properties leaves of a native plan
\* when each of the fragments is processed
ByFragments(operation, scope, fragments, native) ==
    IF scope = "objc-property"
    THEN LET Keep(e) == /\ DisplayName(e.value) \notin PropertyMethodNames(fragments)
                        /\ DisplayName(e.value) \notin OtherIgnoreSet
         IN SelectSeq(native, Keep)
    ELSE IF operation = "include" THEN IncludeObjCFragments(fragments, native)
    ELSE IF operation = "exclude" THEN ExcludeObjCFragments(fragments, native)
    ELSE IF ValidRegExps(fragments) = <<>> THEN native
    ELSE FilterEntries(native, 1, ValidRegExps(fragments))

\* C24: an objc-method rule (include, exclude, filter) and an exclude
\* objc-property rule process every fragment of the pattern, the pattern
\* being separated at every ";" and every ",": include objc-method "a;b;c"
\* plans the matches of a, of b and of c.
C24_EveryFragmentProcessed ==
    \A k \in 1..Len(trail) :
        (\/ trail[k].rule[2] = "objc-method"
         \/ trail[k].rule[2] = "objc-property" /\ trail[k].rule[1] = "exclude") =>
            trail[k].plan.native =
                ByFragments(trail[k].rule[1], trail[k].rule[2],
                            Fragments(trail[k].rule[3]), PlanBefore(k).native)

\* C26: no two handlers:get requests that await their reply carry the same
\* base id, that is, wait for the same message reply:<id>, whatever the
\* order of the batches and of the replies, also when the managed batch has
\* no member.
C26_AwaitedRepliesDistinct ==
    \A i \in 1..Len(recvOps) : \A j \in 1..Len(recvOps) :
        i # j => recvOps[i].key # recvOps[j].key

\* the positions of the messages of a type among those sent
Positions(type) == {i \in 1..Len(sent) : sent[i].type = type}

\* the requests of the flavors sent so far were all answered
AllAnswered(flavors) ==
    \A i \in Positions("handlers:get") : sent[i].flavor \in flavors => i \in answered

\* agent:initialized and agent:started were sent, once each, in this order
StartupComplete ==
    /\ Cardinality(Positions("agent:initialized")) = 1
    /\ Cardinality(Positions("agent:started")) = 1
    /\ \A i \in Positions("agent:initialized") : \A j \in Positions("agent:started") : i < j

\* C28: when the managed runtime is there if managed rules need it, the host
\* answers every handlers:get request once and a callback the runtime holds
\* back is run in the end, start-up sends agent:initialized once and then
\* agent:started once, whatever the plan; neither is sent twice or out of
\* order, agent:initialized is not sent while a request of a native flavor
\* is unanswered, and agent:started is not sent while any request is.
C28_StartupTerminates ==
    /\ (start.pc = "init" /\ ~(plan.javaRules /\ java.state = "unavailable"))
          ~> StartupComplete
    /\ [](/\ Cardinality(Positions("agent:initialized")) <= 1
          /\ Cardinality(Positions("agent:started")) <= 1
          /\ Positions("agent:started") # {} => StartupComplete
          /\ Positions("agent:initialized") # {} => AllAnswered({"c", "objc", "swift"})
          /\ Positions("agent:started") # {} => AllAnswered(Flavors))

\* start-up completed for a plan of native and managed targets whose managed
\* batch began when the runtime had finished loading
C28_Witness ==
    /\ StartupComplete
    /\ java.performed = "later"
    /\ batch["java"].groups # <<>>
    /\ \E f \in {"c", "objc", "swift"} : batch[f].groups # <<>>
    /\ AllAnswered(Flavors)

\* C29: between the operations of the batcher (emit from the probes of any
\* thread, expiry of the timer, flush, dispose, in any order) the flush timer
\* is armed exactly when the queue of pending events is not empty, and no
\* events:add message carries an empty list of events.
C29_TimerArmedIffPending ==
    /\ flushTimer <=> pendingEvents # <<>>
    /\ \A i \in Positions("events:add") : sent[i].events # <<>>

\* after a batch sent on the expiry of the timer and a batch sent by
\* dispose, an event is pending and the timer is armed again
C29_Witness ==
    /\ flushTimer
    /\ pendingEvents # <<>>
    /\ \E k \in 1..Len(windows) : windows[k].by = "timer"
    /\ \E k \in 1..Len(windows) : windows[k].by = "dispose"
    /\ Cardinality(Positions("events:add")) = 2

\* ------------------------------------------------------------------ claims on managed invocations

\* the error was handed to Script.nextTick once, to be thrown by the control
\* loop
Deferred(e) ==
    Cardinality({i \in 1..Len(managed.ticks) : managed.ticks[i] = e})
    + Cardinality({i \in 1..Len(managed.uncaught) : managed.uncaught[i] = e}) = 1

\* how an invocation completes when no error of the script interferes
Unaltered(d) ==
    IF d.method = "throws" THEN [kind |-> "throw", value |-> <<d.call.n, "method">>]
    ELSE IF d.leave = "throwsJava" THEN [kind |-> "throw", value |-> <<d.call.n, "<">>]
    ELSE IF d.leave = "replaces"
    THEN [kind |-> "return", value |-> <<"replacement", d.call.n>>]
    ELSE [kind |-> "return", value |-> <<"retval", d.call.n>>]

\* C25: in a managed invocation an error of onEnter or onLeave that is no
\* exception of the managed runtime leaves the call as it is: the real method
\* is called once, with the arguments of the call, the caller gets what the
\* real method returned, and the error is thrown later by the control loop,
\* once; an exception of the managed runtime thrown by the handler reaches
\* the caller.
C25_ScriptErrorsAreDeferred ==
    /\ \A i \in 1..Len(managed.done) :
          LET d == managed.done[i]
          IN /\ d.call.enter = "throwsError" =>
                   /\ d.applied = <<d.call.args>>
                   /\ d.result = Unaltered(d)
                   /\ Deferred(<<d.call.n, ">">>)
             /\ d.leave = "throwsError" =>
                   /\ d.applied = <<d.call.args>>
                   /\ d.result = [kind |-> "return", value |-> <<"retval", d.call.n>>]
                   /\ Deferred(<<d.call.n, "<">>)
             /\ d.call.enter = "throwsJava" =>
                   d.result = [kind |-> "throw", value |-> <<d.call.n, ">">>]
             /\ d.leave = "throwsJava" =>
                   d.result = [kind |-> "throw", value |-> <<d.call.n, "<">>]
    /\ \A t \in Threads : \A i \in 1..Len(managed.stacks[t]) :
          LET f == managed.stacks[t][i]
          IN f.call.enter = "throwsError" =>
                (f.applied = <<f.call.args>> /\ Deferred(<<f.call.n, ">">>))

\* both halves of the handler threw an error of the script in one
\* invocation, the caller got the value of the real method, and the control
\* loop threw the first error afterwards
C25_Witness ==
    \E i \in 1..Len(managed.done) :
        /\ managed.done[i].call.enter = "throwsError"
        /\ managed.done[i].leave = "throwsError"
        /\ managed.done[i].result.kind = "return"
        /\ managed.uncaught = <<<<managed.done[i].call.n, ">">>>>
        /\ managed.ticks = <<<<managed.done[i].call.n, "<">>>>

\* C27: when a managed invocation finishes, by a return, by an exception of
\* the real method or by an exception of the managed runtime from onEnter or
\* onLeave, the entry of the thread in the depth table is what it was when
\* the invocation started, absent if it was absent.
C27_DepthRestored ==
    \A i \in 1..Len(managed.done) :
        managed.done[i].after = managed.done[i].call.before

\* ------------------------------------------------------------------ start-up signals

InitializedSent == \E i \in 1..Len(sent) : sent[i].type = "agent:initialized"

\* start() ran and did not fail
Running == start.pc \notin {"idle", "init", "failed"}

\* the managed request was sent and its reply is still awaited
ManagedUnanswered == batch["java"].pc = "awaiting"

\* C12 as it is stated: in a run with managed rules, agent:initialized is
\* sent as soon as the native batches are done, also while the managed
\* request is unanswered.
C12_InitializedIgnoresManaged ==
    (Running /\ plan.javaRules /\ NativeDone(Cur)) => InitializedSent

\* C12, amended: agent:initialized is sent at the first moment at which the
\* native batches are done and the managed callback either has not run yet
\* or its batch is done too: it is never sent before the native batches are
\* done, it does not wait for a managed callback that is still deferred, and
\* when the callback ran before the native batches were done (always so when
\* it runs at once, inside start) it is held back until the managed request
\* is answered and the managed targets are attached.
C12_InitializedWaitsForStartedManaged ==
    /\ [](InitializedSent => (Running /\ NativeDone(Cur)))
    /\ []((Running /\ NativeDone(Cur) /\ ~InitializedSent) =>
             (java.performed # "no" /\ batch["java"].pc # "done"))
    /\ [][(~InitializedSent /\ InitializedSent') =>
             (java'.performed = "no" \/ batch'["java"].pc = "done")]_vars

\* the managed callback was deferred, the native targets are attached and
\* agent:initialized was sent while the managed request is unanswered
C12_Witness ==
    /\ plan.javaRules
    /\ java.performed = "later"
    /\ ManagedUnanswered
    /\ attached # {}
    /\ InitializedSent

\* C13: the count carried by agent:started is the number of targets whose
\* probe or method replacement is attached; a target whose attachment failed
\* is not counted. (Nothing is attached after agent:started is sent.)
C13_StartedCountsAttached ==
    \A i \in 1..Len(sent) :
        sent[i].type = "agent:started" => sent[i].count = Cardinality(attached)

\* C14: when the specification has a managed rule and the managed runtime
\* is unavailable, the session sends agent:error, once, and nothing else: no
\* handlers:get request, no agent:initialized, no agent:started; no probe is
\* attached and the handler table stays empty, whatever the native rules.
C14_ManagedMissingIsFatal ==
    (plan.javaRules /\ java.state = "unavailable") =>
        /\ handlers = <<>>
        /\ attached = {}
        /\ registered = {}
        /\ recvOps = <<>>
        /\ sent = IF start.pc = "init" THEN <<>>
                  ELSE <<[type |-> "agent:error",
                          message |-> "Java runtime is not available"]>>

\* the session failed although its plan holds native targets, and an update
\* call made afterwards found no target
C14_Witness ==
    /\ start.pc = "failed"
    /\ \E f \in {"c", "objc", "swift"} : CountMembers(plan.native[f]) > 0
    /\ rpc.result = "Invalid target ID"
    /\ Len(sent) = 1

\* the agent:warning messages of one kind that name a target
Warnings(kind, name) ==
    {i \in 1..Len(sent) :
        sent[i].type = "agent:warning" /\ sent[i].message = <<kind, name>>}

\* C15: a native batch whose reply arrived is complete whatever targets
\* failed: every target of the batch is registered under its own id with the
\* pair of the script at its position in the reply (the script the host
\* produced for it, when the reply has one script per target), there is
\* one warning per script that does not parse and one per probe that could
\* not be attached, and every target without an attachment failure is
\* attached.
C15_BatchSurvivesFailures ==
    \A f \in {"c", "objc", "swift"} :
        /\ batch[f].pc = "awaiting" => gh[f].pc = "await"
        /\ batch[f].pc = "done" =>
             LET items == FlattenMembers(batch[f].groups)
             IN \A k \in 1..Len(items) :
                   LET id == batch[f].baseId + k - 1
                       script == ProvisionedScript(id)
                   IN /\ id \in DOMAIN handlers
                      /\ <<id, f, items[k].name>> \in registered
                      /\ script = ScriptAt(gh[f].scripts, k)
                      /\ Len(gh[f].scripts) = Len(items) =>
                            (script.id = id /\ script.member = items[k].name)
                      /\ handlers[id] = HandlerOf(ScriptInForce(id, Len(probes) + 1))
                      /\ Cardinality(Warnings("Invalid handler", items[k].name))
                            = IF Parses(script) THEN 0 ELSE 1
                      /\ Cardinality(Warnings("Skipping", items[k].name))
                            = IF id \in attached THEN 0 ELSE 1

\* a batch of two targets: the first has a script that does not parse and a
\* probe that could not be attached, the second is attached with its script
C15_Witness ==
    \E f \in {"c", "objc", "swift"} :
        /\ batch[f].pc = "done"
        /\ CountMembers(batch[f].groups) = 2
        /\ batch[f].baseId \notin attached
        /\ ~Parses(ProvisionedScript(batch[f].baseId))
        /\ batch[f].baseId + 1 \in attached
        /\ handlers[batch[f].baseId + 1] = HandlerOf(ProvisionedScript(batch[f].baseId + 1))
        /\ Parses(ProvisionedScript(batch[f].baseId + 1))

====
